---- MODULE Spec2Model ----
(***************************************************************************)
(* Episodely: the watch-state derivation (server computeShowState /        *)
(* listShowsForProfile, client computeShowStats) and the mutations of the  *)
(* watch-mark store (toggle episode, toggle season, status override,       *)
(* remove show, add show, import).                                         *)
(*                                                                         *)
(* Encoding of SQL / JSON values:                                          *)
(*   airdate    0 = NULL, d >= 1 = the calendar date number d              *)
(*   watched_at 0 = no row (LEFT JOIN NULL), t >= 1 = the ISO timestamp t  *)
(*   TEXT NULL  the string "NULL"                                          *)
(* Date strings are zero padded YYYY-MM-DD, so the string comparison the   *)
(* code uses orders them as the date numbers are ordered.                  *)
(***************************************************************************)
EXTENDS Integers, Sequences, FiniteSets, TLC

VARIABLES
    tvmaze,            \* what the TVmaze API answers: [status, airdate]
    today,             \* the current calendar date (getTodayDate)
    clock,             \* the current instant (nowIso)
    shows,             \* table shows
    episodes,          \* table episodes
    profile_shows,     \* table profile_shows (ProfileShowLink)
    profile_episodes,  \* table profile_episodes (WatchMark)
    lastCall,          \* the last mutation request and its outcome
    serverView,        \* last entry returned by GET /api/shows for a show
    clientView,        \* last result of the client's computeShowStats
    showDetail,        \* client state showDetail (the detail snapshot)
    categories,        \* client state categories (the bucket listing)
    requests,          \* the client's handlers in flight, in issuance order
    clientToday,       \* the calendar date of the browser (client getTodayDate)
    exported,          \* the export document on its way into another profile
    tvmazeSyncInProgress, \* the flag of startTvmazeSync
    syncPasses,        \* the runSync calls that have not returned
    addCalls,          \* the POST /api/shows calls awaiting the catalog
    released           \* an airdate string, a local time, and isReleased of it

vars == <<tvmaze, today, clock, shows, episodes, profile_shows,
          profile_episodes, lastCall, serverView, clientView,
          showDetail, categories, requests, clientToday, exported,
          tvmazeSyncInProgress, syncPasses, addCalls, released>>

clientVars == <<showDetail, categories, requests>>

serverVars == <<tvmaze, today, clock, shows, episodes, profile_shows,
                profile_episodes, lastCall, serverView, clientView>>

jobVars == <<exported, tvmazeSyncInProgress, syncPasses, addCalls, released>>

\* ------------------------------------------------------------------ bounds
MaxDate == 3
MaxClock == 2
MaxCalls == 2
MaxPasses == 2
MaxAdds == 2

\* ---------------------------------------------------------------- encoding
NULL == "NULL"
NoDate == 0
NoStamp == 0

Dates == 1..MaxDate
Airdates == {NoDate} \cup Dates
Stamps == 1..MaxClock
Profiles == {1}

\* The external catalog: two shows, the first with two seasons.
TvShows == {10, 20}
TvEpisodes(tvShow) == IF tvShow = 10 THEN <<11, 12, 13>> ELSE <<21>>
TvEpisodeIds == {11, 12, 13, 21}
TvSeason(tvEp) == IF tvEp = 13 THEN 2 ELSE 1
TvNumber(tvEp) == IF tvEp = 12 THEN 2 ELSE 1
TvName(tvShow) == IF tvShow = 10 THEN "Alpha" ELSE "Beta"
Statuses == {"Running", "Ended", "ended"}

Max(S) == CHOOSE x \in S : \A y \in S : y <= x
Min(S) == CHOOSE x \in S : \A y \in S : x <= y

\* String.prototype.toLowerCase on the status strings of the catalog
ToLowerCase(s) ==
    CASE s = "Ended" -> "ended"
      [] s = "Running" -> "running"
      [] OTHER -> s

\* JavaScript truthiness of a TEXT column value / of an airdate / timestamp
Truthy(v) == v # 0

\* ------------------------------------------------------- release predicate
\* server/utils.js isReleased: airdate present and on or before today
isReleased(airdate, todayDate) ==
    IF airdate = NoDate THEN FALSE ELSE airdate <= todayDate

\* client isReleased (App.jsx): !airdate -> false; airdate <= getTodayDate()
clientIsReleased(airdate, todayDate) ==
    IF ~Truthy(airdate) THEN FALSE ELSE airdate <= todayDate

\* --------------------------------------------------------- calendar date
\* Instants are hours; day d is the hours d * HoursPerDay up to the next day
\* in UTC.  A machine's zone offset is in hours.
HoursPerDay == 24
ZoneOffsets == {-1, 0, 1}

\* client getTodayDate: getFullYear / getMonth / getDate of new Date(), the
\* calendar date of the instant in the browser's time zone
getTodayDate(instant, zoneOffset) == (instant + zoneOffset) \div HoursPerDay

\* server/utils.js getTodayDate: the calendar date of the instant on the
\* server's clock
serverGetTodayDate(instant, zoneOffset) == (instant + zoneOffset) \div HoursPerDay

\* ---------------------------------------------------------- date strings
\* A string is the sequence of its UTF-16 code units; the empty sequence
\* also stands for null.  A calendar date is [year, month, day], a local time
\* [year, month, day, hour].
RECURSIVE Digits(_)
Digits(n) == IF n < 10 THEN <<48 + n>> ELSE Append(Digits(n \div 10), 48 + (n % 10))

\* String(n).padStart(2, '0')
padStart(n) == IF Len(Digits(n)) < 2 THEN <<48>> \o Digits(n) ELSE Digits(n)

\* the dates the client formats without zero padding
formatLocalDateUnpadded(now) ==
    Digits(now.year) \o <<45>> \o Digits(now.month) \o <<45>> \o Digits(now.day)

\* client getTodayDate: `${year}-${month}-${day}` of the local time
formatLocalDate(now) ==
    Digits(now.year) \o <<45>> \o padStart(now.month) \o <<45>> \o padStart(now.day)

\* server/utils.js getTodayDate: a YYYY-MM-DD date string
serverFormatLocalDate(now) ==
    Digits(now.year) \o <<45>> \o padStart(now.month) \o <<45>> \o padStart(now.day)

\* the airdate TVmaze sends for a dated episode, YYYY-MM-DD
TvmazeAirdate(date) ==
    Digits(date.year) \o <<45>> \o padStart(date.month) \o <<45>> \o padStart(date.day)

\* a <= b on JavaScript strings: by code units, a prefix first
RECURSIVE StringLeq(_, _)
StringLeq(a, b) ==
    IF a = <<>> THEN TRUE
    ELSE IF b = <<>> THEN FALSE
    ELSE IF Head(a) # Head(b) THEN Head(a) < Head(b)
    ELSE StringLeq(Tail(a), Tail(b))

\* client isReleased on the strings: if (!airdate) return false;
\* return airdate <= getTodayDate()
clientIsReleasedString(airdate, todayString) ==
    IF airdate = <<>> THEN FALSE ELSE StringLeq(airdate, todayString)

\* server/utils.js isReleased on the strings
serverIsReleasedString(airdate, todayString) ==
    IF airdate = <<>> THEN FALSE ELSE StringLeq(airdate, todayString)

\* ------------------------------------------------------------- sequences
Range(seq) == {seq[i] : i \in 1..Len(seq)}

\* Array.prototype.sort by (a.airdate || '').localeCompare(b.airdate || '')
\* followed by [0]: the sort is stable, so the result is the first element,
\* in input order, among those with the smallest key.  0 stands for undefined.
AirKey(ep) == IF Truthy(ep.airdate) THEN ep.airdate ELSE 0
SortedFirst(seq) ==
    IF seq = <<>> THEN 0
    ELSE LET least == Min({AirKey(seq[i]) : i \in 1..Len(seq)})
             first == Min({i \in 1..Len(seq) : AirKey(seq[i]) = least})
         IN seq[first].id

\* The rows of a set as the sequence an ORDER BY on key (then id) returns
OrderBy(rows, keyOf) ==
    CHOOSE seq \in [1..Cardinality(rows) -> rows] :
        /\ Range(seq) = rows
        /\ \A i \in 1..Len(seq) : \A j \in 1..Len(seq) :
              i < j => \/ keyOf[seq[i]] < keyOf[seq[j]]
                       \/ keyOf[seq[i]] = keyOf[seq[j]] /\ seq[i].id < seq[j].id

\* Every order in which a query without ORDER BY may return the rows
QueryOrders(rows) ==
    {seq \in [1..Cardinality(rows) -> rows] : Range(seq) = rows}

\* ------------------------------------------------ server: computeShowState
\* the server chain with the watch-next rule tested before the watching rule
serverStateRulesWatchNextFirst(profileStatus, hasPartiallyWatchedSeason, started, releasedUnwatchedLength, hasReleased, allReleasedWatched, isEnded, allEpisodesWatched) ==
    IF profileStatus = "stopped" THEN "stopped"
    ELSE IF started /\ releasedUnwatchedLength > 0 THEN "watch-next"
    ELSE IF hasPartiallyWatchedSeason THEN "watching"
    ELSE IF ~started /\ hasReleased THEN "queued"
    ELSE IF started /\ allReleasedWatched /\ ~isEnded THEN "up-to-date"
    ELSE IF isEnded /\ allEpisodesWatched THEN "completed"
    ELSE IF ~hasReleased THEN "queued"
    ELSE "up-to-date"

\* the server chain with the nothing-released rule tested before the completed rule
serverStateRulesQueuedBeforeCompleted(profileStatus, hasPartiallyWatchedSeason, started, releasedUnwatchedLength, hasReleased, allReleasedWatched, isEnded, allEpisodesWatched) ==
    IF profileStatus = "stopped" THEN "stopped"
    ELSE IF hasPartiallyWatchedSeason THEN "watching"
    ELSE IF started /\ releasedUnwatchedLength > 0 THEN "watch-next"
    ELSE IF ~started /\ hasReleased THEN "queued"
    ELSE IF started /\ allReleasedWatched /\ ~isEnded THEN "up-to-date"
    ELSE IF ~hasReleased THEN "queued"
    ELSE IF isEnded /\ allEpisodesWatched THEN "completed"
    ELSE "up-to-date"

\* the server chain with completed decided by the released episodes only
serverStateRulesCompletedByReleased(profileStatus, hasPartiallyWatchedSeason, started, releasedUnwatchedLength, hasReleased, allReleasedWatched, isEnded, allEpisodesWatched) ==
    IF profileStatus = "stopped" THEN "stopped"
    ELSE IF hasPartiallyWatchedSeason THEN "watching"
    ELSE IF started /\ releasedUnwatchedLength > 0 THEN "watch-next"
    ELSE IF ~started /\ hasReleased THEN "queued"
    ELSE IF started /\ allReleasedWatched /\ ~isEnded THEN "up-to-date"
    ELSE IF isEnded /\ allReleasedWatched THEN "completed"
    ELSE IF ~hasReleased THEN "queued"
    ELSE "up-to-date"

\* the server chain with the stopped override tested after the watching rule
serverStateRulesStoppedSecond(profileStatus, hasPartiallyWatchedSeason, started, releasedUnwatchedLength, hasReleased, allReleasedWatched, isEnded, allEpisodesWatched) ==
    IF hasPartiallyWatchedSeason THEN "watching"
    ELSE IF profileStatus = "stopped" THEN "stopped"
    ELSE IF started /\ releasedUnwatchedLength > 0 THEN "watch-next"
    ELSE IF ~started /\ hasReleased THEN "queued"
    ELSE IF started /\ allReleasedWatched /\ ~isEnded THEN "up-to-date"
    ELSE IF isEnded /\ allEpisodesWatched THEN "completed"
    ELSE IF ~hasReleased THEN "queued"
    ELSE "up-to-date"

\* the if / else-if chain that assigns state
serverStateRules(profileStatus, hasPartiallyWatchedSeason, started, releasedUnwatchedLength, hasReleased, allReleasedWatched, isEnded, allEpisodesWatched) ==
    IF profileStatus = "stopped" THEN "stopped"
    ELSE IF hasPartiallyWatchedSeason THEN "watching"
    ELSE IF started /\ releasedUnwatchedLength > 0 THEN "watch-next"
    ELSE IF ~started /\ hasReleased THEN "queued"
    ELSE IF started /\ allReleasedWatched /\ ~isEnded THEN "up-to-date"
    ELSE IF isEnded /\ allEpisodesWatched THEN "completed"
    ELSE IF ~hasReleased THEN "queued"
    ELSE "up-to-date"

\* show: [status, profile_status]; showEpisodes: sequence of joined rows
\* [id, season, number, airdate, watched_at]
computeShowState(show, showEpisodes, todayDate) ==
    LET releasedEpisodes ==
            SelectSeq(showEpisodes, LAMBDA e : isReleased(e.airdate, todayDate))
        releasedUnwatched ==
            SelectSeq(releasedEpisodes, LAMBDA e : ~Truthy(e.watched_at))
        seasons == {showEpisodes[i].season : i \in 1..Len(showEpisodes)}
        seasonReleased(n) ==
            SelectSeq(showEpisodes,
                      LAMBDA e : e.season = n /\ isReleased(e.airdate, todayDate))
        watchedReleased(n) ==
            Len(SelectSeq(seasonReleased(n), LAMBDA e : Truthy(e.watched_at)))
        hasPartiallyWatchedSeason ==
            \E n \in seasons :
                /\ Len(seasonReleased(n)) # 0
                /\ watchedReleased(n) > 0
                /\ watchedReleased(n) < Len(seasonReleased(n))
        watchedCount ==
            Len(SelectSeq(showEpisodes, LAMBDA e : Truthy(e.watched_at)))
        started == watchedCount > 0
        hasReleased == Len(releasedEpisodes) > 0
        hasFuture ==
            \E i \in 1..Len(showEpisodes) :
                /\ Truthy(showEpisodes[i].airdate)
                /\ ~isReleased(showEpisodes[i].airdate, todayDate)
        isEnded ==
            ToLowerCase(IF show.status = NULL THEN "" ELSE show.status) = "ended"
        allReleasedWatched == hasReleased /\ Len(releasedUnwatched) = 0
        allEpisodesWatched ==
            /\ Len(showEpisodes) > 0
            /\ \A i \in 1..Len(showEpisodes) : Truthy(showEpisodes[i].watched_at)
        state ==
            serverStateRules(show.profile_status, hasPartiallyWatchedSeason,
                             started, Len(releasedUnwatched), hasReleased,
                             allReleasedWatched, isEnded, allEpisodesWatched)
    IN [state |-> state,
        releasedEpisodes |-> releasedEpisodes,
        releasedUnwatched |-> releasedUnwatched,
        watchedCount |-> watchedCount,
        hasFuture |-> hasFuture]

\* ------------------------------------------------ client: computeShowStats
\* the client chain with the watch-next rule tested before the watching rule
clientStateRulesWatchNextFirst(profileStatus, hasPartiallyWatchedSeason, started, releasedUnwatchedLength, hasReleased, allReleasedWatched, isEnded, allEpisodesWatched) ==
    IF profileStatus = "stopped" THEN "stopped"
    ELSE IF started /\ releasedUnwatchedLength > 0 THEN "watch-next"
    ELSE IF hasPartiallyWatchedSeason THEN "watching"
    ELSE IF ~started /\ hasReleased THEN "queued"
    ELSE IF started /\ allReleasedWatched /\ ~isEnded THEN "up-to-date"
    ELSE IF isEnded /\ allEpisodesWatched THEN "completed"
    ELSE IF ~hasReleased THEN "queued"
    ELSE "up-to-date"

\* the if / else-if chain that assigns state
clientStateRules(profileStatus, hasPartiallyWatchedSeason, started, releasedUnwatchedLength, hasReleased, allReleasedWatched, isEnded, allEpisodesWatched) ==
    IF profileStatus = "stopped" THEN "stopped"
    ELSE IF hasPartiallyWatchedSeason THEN "watching"
    ELSE IF started /\ releasedUnwatchedLength > 0 THEN "watch-next"
    ELSE IF ~started /\ hasReleased THEN "queued"
    ELSE IF started /\ allReleasedWatched /\ ~isEnded THEN "up-to-date"
    ELSE IF isEnded /\ allEpisodesWatched THEN "completed"
    ELSE IF ~hasReleased THEN "queued"
    ELSE "up-to-date"

\* show: [status, profileStatus]; eps: sequence of [id, season, number,
\* airdate, watched]
computeShowStats(show, eps, todayDate) ==
    LET releasedEpisodes ==
            SelectSeq(eps, LAMBDA e : clientIsReleased(e.airdate, todayDate))
        releasedUnwatched == SelectSeq(releasedEpisodes, LAMBDA e : ~e.watched)
        seasons == {eps[i].season : i \in 1..Len(eps)}
        seasonReleased(n) ==
            SelectSeq(eps, LAMBDA e : e.season = n
                                      /\ clientIsReleased(e.airdate, todayDate))
        watchedReleased(n) ==
            Len(SelectSeq(seasonReleased(n), LAMBDA e : e.watched))
        hasPartiallyWatchedSeason ==
            \E n \in seasons :
                /\ Len(seasonReleased(n)) # 0
                /\ watchedReleased(n) > 0
                /\ watchedReleased(n) < Len(seasonReleased(n))
        watchedCount == Len(SelectSeq(eps, LAMBDA e : e.watched))
        started == watchedCount > 0
        hasReleased == Len(releasedEpisodes) > 0
        hasFuture ==
            \E i \in 1..Len(eps) :
                /\ Truthy(eps[i].airdate)
                /\ ~clientIsReleased(eps[i].airdate, todayDate)
        isEnded ==
            ToLowerCase(IF show.status = NULL THEN "" ELSE show.status) = "ended"
        allReleasedWatched == hasReleased /\ Len(releasedUnwatched) = 0
        allEpisodesWatched ==
            Len(eps) > 0 /\ \A i \in 1..Len(eps) : eps[i].watched
        state ==
            clientStateRules(show.profileStatus, hasPartiallyWatchedSeason,
                             started, Len(releasedUnwatched), hasReleased,
                             allReleasedWatched, isEnded, allEpisodesWatched)
        nextUnwatched == SortedFirst(releasedUnwatched)
        nextFuture ==
            SortedFirst(SelectSeq(eps,
                LAMBDA e : Truthy(e.airdate)
                           /\ ~clientIsReleased(e.airdate, todayDate)))
    IN [state |-> state,
        stats |-> [totalEpisodes |-> Len(eps),
                   watchedEpisodes |-> watchedCount,
                   releasedEpisodes |-> Len(releasedEpisodes),
                   releasedUnwatched |-> Len(releasedUnwatched),
                   hasFuture |-> hasFuture],
        nextEpisode |-> IF nextUnwatched # 0 THEN nextUnwatched ELSE nextFuture]

\* ------------------------------------------------------------ the database
NextId(rows) == IF rows = {} THEN 1 ELSE Max({r.id : r \in rows}) + 1

RowIds == 1..Cardinality(TvEpisodeIds)

\* a lookup that only tests that the show is in the catalog store
IsLinkedShowExists(profileId, showId) ==
    \E sh \in shows : sh.id = showId

\* SELECT ... FROM profile_shows WHERE profile_id = ? AND show_id = ?
IsLinked(profileId, showId) ==
    \E ps \in profile_shows : ps.profile_id = profileId /\ ps.show_id = showId

\* pe.watched_at of the LEFT JOIN on profile_episodes
WatchedAt(marks, profileId, episodeId) ==
    IF \E pe \in marks : pe.profile_id = profileId /\ pe.episode_id = episodeId
    THEN (CHOOSE pe \in marks :
             pe.profile_id = profileId /\ pe.episode_id = episodeId).watched_at
    ELSE NoStamp

\* a plain INSERT into a table without the primary key: the old row stays
UpsertMarkInsertOnly(marks, profileId, episodeId, watchedAt) ==
    marks \cup {[profile_id |-> profileId, episode_id |-> episodeId,
                 watched_at |-> watchedAt]}

\* INSERT ... ON CONFLICT(profile_id, episode_id) DO UPDATE SET watched_at
UpsertMark(marks, profileId, episodeId, watchedAt) ==
    {pe \in marks : ~(pe.profile_id = profileId /\ pe.episode_id = episodeId)}
    \cup {[profile_id |-> profileId, episode_id |-> episodeId,
           watched_at |-> watchedAt]}

\* DELETE FROM profile_episodes WHERE profile_id = ? AND episode_id = ?
DeleteMark(marks, profileId, episodeId) ==
    {pe \in marks : ~(pe.profile_id = profileId /\ pe.episode_id = episodeId)}

\* a transaction that keeps what ran before the throw (no ROLLBACK)
runTransactionNoRollback(before, after, threw) == after

\* BEGIN; fn(); COMMIT -- or ROLLBACK when fn throws
runTransaction(before, after, threw) == IF threw THEN before ELSE after

\* ------------------------------------------------- upsertShowWithEpisodes
RECURSIVE UpsertEpisodes(_, _, _, _)
UpsertEpisodes(rows, showId, tvEps, api) ==
    IF tvEps = <<>> THEN rows
    ELSE LET tvEp == Head(tvEps)
             payload(id) == [id |-> id, tvmaze_id |-> tvEp, show_id |-> showId,
                             season |-> TvSeason(tvEp), number |-> TvNumber(tvEp),
                             airdate |-> api.airdate[tvEp]]
             next ==
                 IF \E e \in rows : e.tvmaze_id = tvEp
                 THEN {IF e.tvmaze_id = tvEp THEN payload(e.id) ELSE e : e \in rows}
                 ELSE rows \cup {payload(NextId(rows))}
         IN UpsertEpisodes(next, showId, Tail(tvEps), api)

\* an upsert that never looks the show up by tvmaze_id and always inserts
upsertShowWithEpisodesAlwaysInsert(showRows, episodeRows, tvmazeId, api) ==
    LET showId == NextId(showRows)
        payload == [id |-> showId, tvmaze_id |-> tvmazeId,
                    name |-> TvName(tvmazeId), status |-> api.status[tvmazeId]]
    IN [showId |-> showId,
        shows |-> showRows \cup {payload},
        episodes |-> UpsertEpisodes(episodeRows, showId, TvEpisodes(tvmazeId), api)]

\* SELECT id FROM shows WHERE tvmaze_id = ? and the transaction that follows
\* it without an await: UPDATE the row found, or INSERT one
upsertShowWithEpisodes(showRows, episodeRows, tvmazeId, api) ==
    LET existing == {sh \in showRows : sh.tvmaze_id = tvmazeId}
        showId == IF existing # {} THEN (CHOOSE sh \in existing : TRUE).id
                  ELSE NextId(showRows)
        payload == [id |-> showId, tvmaze_id |-> tvmazeId,
                    name |-> TvName(tvmazeId), status |-> api.status[tvmazeId]]
    IN [showId |-> showId,
        shows |-> {sh \in showRows : sh.tvmaze_id # tvmazeId} \cup {payload},
        episodes |-> UpsertEpisodes(episodeRows, showId, TvEpisodes(tvmazeId), api)]

\* ------------------------------------------------------------ server reads
\* SELECT e.*, pe.watched_at FROM episodes e JOIN profile_shows ps ...
JoinedEpisode(e, profileId) ==
    [id |-> e.id, show_id |-> e.show_id, season |-> e.season,
     number |-> e.number, airdate |-> e.airdate,
     watched_at |-> WatchedAt(profile_episodes, profileId, e.id)]

ProfileEpisodeRows(profileId) ==
    {JoinedEpisode(e, profileId) : e \in {x \in episodes : IsLinked(profileId, x.show_id)}}

\* SELECT s.*, ps.status AS profile_status ... WHERE ps.profile_id = ?
ProfileShowRows(profileId) ==
    {[id |-> sh.id, tvmaze_id |-> sh.tvmaze_id, name |-> sh.name,
      status |-> sh.status, profile_status |-> ps.status] :
        <<sh, ps>> \in {pair \in shows \X profile_shows :
                          /\ pair[2].profile_id = profileId
                          /\ pair[2].show_id = pair[1].id}}

\* One entry of listShowsForProfile; order is the order in which the
\* episodes query returned its rows.
ListEntry(show, order, todayDate) ==
    LET showEpisodes == SelectSeq(order, LAMBDA e : e.show_id = show.id)
        computed == computeShowState(show, showEpisodes, todayDate)
        nextUnwatched == SortedFirst(computed.releasedUnwatched)
        nextFuture ==
            SortedFirst(SelectSeq(showEpisodes,
                LAMBDA e : Truthy(e.airdate) /\ ~isReleased(e.airdate, todayDate)))
    IN [id |-> show.id,
        name |-> show.name,
        profileStatus |-> show.profile_status,
        state |-> computed.state,
        stats |-> [totalEpisodes |-> Len(showEpisodes),
                   watchedEpisodes |-> computed.watchedCount,
                   releasedEpisodes |-> Len(computed.releasedEpisodes),
                   releasedUnwatched |-> Len(computed.releasedUnwatched),
                   hasFuture |-> computed.hasFuture],
        nextEpisode |-> IF nextUnwatched # 0 THEN nextUnwatched ELSE nextFuture]

\* listShowsForProfile as the set of its entries (ORDER BY s.name is applied
\* by the callers that need the sequence)
listShowsForProfile(profileId, order) ==
    {ListEntry(show, order, today) : show \in ProfileShowRows(profileId)}

\* GET /api/shows: the id of the bucket an entry is pushed to
BucketOf(entry) ==
    IF entry.state = "stopped" THEN "stopped"
    ELSE IF entry.state = "watching" THEN "watching"
    ELSE IF entry.state = "watch-next" THEN "watch-next"
    ELSE IF entry.state = "queued" THEN "queued"
    ELSE IF entry.state = "up-to-date" THEN "up-to-date"
    ELSE "completed"

\* localeCompare / ORDER BY s.name on the names of the catalog
NameRank(name) == IF name = "Alpha" THEN 1 ELSE 2

\* GET /api/shows: the six categories, the shows of each in name order
CategoryIds ==
    <<"watch-next", "watching", "queued", "up-to-date", "completed", "stopped">>
CategoryLabels ==
    <<"Watch Next", "Watching", "Not Started", "Up To Date", "Finished",
      "Stopped Watching">>

\* a listing that leaves out the categories without shows
CategoriesNonEmptyOnly(profileId, order) ==
    LET entries == listShowsForProfile(profileId, order)
        sorted == OrderBy(entries, [e \in entries |-> NameRank(e.name)])
        all == [i \in 1..Len(CategoryIds) |->
                  [id |-> CategoryIds[i], label |-> CategoryLabels[i],
                   shows |-> SelectSeq(sorted,
                                LAMBDA e : BucketOf(e) = CategoryIds[i])]]
    IN SelectSeq(all, LAMBDA c : c.shows # <<>>)

Categories(profileId, order) ==
    LET entries == listShowsForProfile(profileId, order)
        sorted == OrderBy(entries, [e \in entries |-> NameRank(e.name)])
    IN [i \in 1..Len(CategoryIds) |->
          [id |-> CategoryIds[i], label |-> CategoryLabels[i],
           shows |-> SelectSeq(sorted, LAMBDA e : BucketOf(e) = CategoryIds[i])]]

\* An entry depends on the episode order only through the rows of its own
\* show, so the orders of the episodes query are taken show by show.
ListingOrders(profileId) ==
    {first \o second :
        first \in QueryOrders({e \in ProfileEpisodeRows(profileId) : e.show_id = 1}),
        second \in QueryOrders({e \in ProfileEpisodeRows(profileId) : e.show_id # 1})}

\* a calendar that derives showState from the upcoming episodes alone
CalendarEpisodesFromUpcoming(profileId) ==
    LET rows == {JoinedEpisode(e, profileId) :
                   e \in {x \in episodes :
                           \E ps \in profile_shows :
                               /\ ps.profile_id = profileId
                               /\ ps.show_id = x.show_id
                               /\ (ps.status = NULL \/ ps.status # "stopped")}}
        upcoming == {e \in rows : Truthy(e.airdate) /\ e.airdate > today}
        order == OrderBy(upcoming, [e \in upcoming |-> e.airdate])
    IN {[id |-> e.id, showId |-> e.show_id,
         showState |->
            computeShowState(
                CHOOSE sh \in ProfileShowRows(profileId) : sh.id = e.show_id,
                SelectSeq(order, LAMBDA x : x.show_id = e.show_id),
                today).state] : e \in upcoming}

\* GET /api/calendar: showState of the upcoming episodes of a profile
CalendarEpisodes(profileId) ==
    LET rows == {JoinedEpisode(e, profileId) :
                   e \in {x \in episodes :
                           \E ps \in profile_shows :
                               /\ ps.profile_id = profileId
                               /\ ps.show_id = x.show_id
                               /\ (ps.status = NULL \/ ps.status # "stopped")}}
        order == OrderBy(rows, [e \in rows |-> e.airdate])
        upcoming == {e \in rows : Truthy(e.airdate) /\ e.airdate > today}
    IN {[id |-> e.id, showId |-> e.show_id,
         showState |->
            computeShowState(
                CHOOSE sh \in ProfileShowRows(profileId) : sh.id = e.show_id,
                SelectSeq(order, LAMBDA x : x.show_id = e.show_id),
                today).state] : e \in upcoming}

\* GET /api/shows/:id for a linked show
ShowDetail(profileId, showId) ==
    LET show == CHOOSE sh \in ProfileShowRows(profileId) : sh.id = showId
        rows == {JoinedEpisode(e, profileId) : e \in {x \in episodes : x.show_id = showId}}
        order == OrderBy(rows, [e \in rows |->
                                   e.season * (Cardinality(TvEpisodeIds) + 1) + e.number])
        seasonNumbers == {e.season : e \in rows}
        seasonEpisodes(n) == SelectSeq(order, LAMBDA e : e.season = n)
        seasonOf(n) ==
            LET totalCount == Len(seasonEpisodes(n))
                watchedCount ==
                    Len(SelectSeq(seasonEpisodes(n), LAMBDA e : Truthy(e.watched_at)))
            IN [id |-> n, season |-> n,
                episodes |-> [i \in 1..totalCount |->
                    [id |-> seasonEpisodes(n)[i].id,
                     season |-> seasonEpisodes(n)[i].season,
                     number |-> seasonEpisodes(n)[i].number,
                     airdate |-> seasonEpisodes(n)[i].airdate,
                     watched |-> Truthy(seasonEpisodes(n)[i].watched_at)]],
                watchedCount |-> watchedCount,
                totalCount |-> totalCount,
                watched |-> totalCount > 0 /\ watchedCount = totalCount]
        seasonRows == {seasonOf(n) : n \in seasonNumbers}
    IN [show |-> [id |-> show.id, name |-> show.name, status |-> show.status,
                  profileStatus |-> show.profile_status,
                  state |-> computeShowState(show, order, today).state],
        seasons |-> OrderBy(seasonRows, [r \in seasonRows |-> r.season])]

\* ---------------------------------------------------------- client helpers
RECURSIVE flattenEpisodes(_)
flattenEpisodes(seasons) ==
    IF seasons = <<>> THEN <<>>
    ELSE Head(seasons).episodes \o flattenEpisodes(Tail(seasons))

\* buildOptimisticShowDetail(detail).computed
buildOptimisticShowDetail(detail, todayDate) ==
    computeShowStats(detail.show, flattenEpisodes(detail.seasons), todayDate)

\* ----------------------------------------------------------- initial state
\* useState(null) for showDetail: no detail snapshot loaded
NoDetail == [show |-> [id |-> 0], seasons |-> <<>>]

NoCall == [op |-> "none", status |-> 0, applied |-> 0]

\* no export document in transit, no refresh pass, no add-show call waiting
NoExport == [phase |-> "none", shows |-> <<>>]
NoDay == [year |-> 0, month |-> 0, day |-> 0]
NoProbe == [airdate |-> <<>>, aired |-> NoDay,
            now |-> [year |-> 0, month |-> 0, day |-> 0, hour |-> 0],
            client |-> FALSE, server |-> FALSE, evaluated |-> {}]
JobsIdle ==
    /\ released = NoProbe
    /\ exported = NoExport
    /\ tvmazeSyncInProgress = FALSE
    /\ syncPasses = <<>>
    /\ addCalls = <<>>

NoView == [valid |-> FALSE, show |-> 0, state |-> "",
           stats |-> [totalEpisodes |-> 0, watchedEpisodes |-> 0,
                      releasedEpisodes |-> 0, releasedUnwatched |-> 0,
                      hasFuture |-> FALSE],
           nextEpisode |-> 0]

ViewOf(showId, r) ==
    [valid |-> TRUE, show |-> showId, state |-> r.state, stats |-> r.stats,
     nextEpisode |-> r.nextEpisode]

\* Catalogs of the running service: show 10 airs one episode per day, its
\* second season is either scheduled or not yet dated.
ServiceCatalogs ==
    {[status |-> [t \in TvShows |-> IF t = 10 THEN st ELSE "Running"],
      airdate |-> [e \in TvEpisodeIds |->
                     IF e = 13 THEN last ELSE IF e = 12 THEN 2 ELSE 1]] :
        st \in {"Running", "Ended"}, last \in {MaxDate}}

Init ==
    /\ tvmaze \in ServiceCatalogs
    /\ today = 2
    /\ clock = 1
    /\ shows = {}
    /\ episodes = {}
    /\ profile_shows = {}
    /\ profile_episodes = {}
    /\ lastCall = NoCall
    /\ serverView = NoView
    /\ clientView = NoView
    /\ showDetail = NoDetail
    /\ categories = <<>>
    /\ requests = <<>>
    /\ clientToday = today
    /\ JobsIdle

\* ------------------------------------------------------------------ actions
\* lastCall names the request and its HTTP status; applied counts the
\* statements a failed transaction had run before it threw.
Call(op, status) == [op |-> op, status |-> status, applied |-> 0]

\* the wall clock advances
Tick ==
    /\ clock < MaxClock
    /\ clock' = clock + 1
    /\ UNCHANGED <<tvmaze, today, shows, episodes, profile_shows,
                   profile_episodes, lastCall, serverView, clientView>>
    /\ UNCHANGED clientVars
    /\ UNCHANGED <<clientToday, jobVars>>

\* POST /api/shows {tvmazeId}
AddShow(profileId, tvmazeId, fetchOk) ==
    /\ IF ~fetchOk
       THEN /\ lastCall' = Call("addShow", 500)
            /\ UNCHANGED <<shows, episodes, profile_shows>>
       ELSE LET up == upsertShowWithEpisodes(shows, episodes, tvmazeId, tvmaze)
            IN /\ shows' = up.shows
               /\ episodes' = up.episodes
               /\ profile_shows' =
                    IF IsLinked(profileId, up.showId) THEN profile_shows
                    ELSE profile_shows \cup
                         {[profile_id |-> profileId, show_id |-> up.showId,
                           status |-> NULL]}
               /\ lastCall' = Call("addShow", 200)
    /\ UNCHANGED <<tvmaze, today, clock, profile_episodes, serverView, clientView>>
    /\ UNCHANGED clientVars
    /\ UNCHANGED <<clientToday, jobVars>>

\* POST /api/shows/:id/status {status}
\* a handler that also accepts the value "paused"
allowedWithPaused == {NULL, "stopped", "paused"}

\* const allowed = [null, 'stopped']
allowed == {NULL, "stopped"}

SetShowStatusOverrideRoute(profileId, showId, status) ==
    /\ IF status \notin allowed
       THEN /\ lastCall' = Call("setStatus", 400)
            /\ UNCHANGED profile_shows
       ELSE IF ~IsLinked(profileId, showId)
       THEN /\ lastCall' = Call("setStatus", 404)
            /\ UNCHANGED profile_shows
       ELSE /\ profile_shows' =
                 {IF ps.profile_id = profileId /\ ps.show_id = showId
                  THEN [ps EXCEPT !.status = status] ELSE ps : ps \in profile_shows}
            /\ lastCall' = Call("setStatus", 200)
    /\ UNCHANGED <<tvmaze, today, clock, shows, episodes, profile_episodes,
                   serverView, clientView>>

\* the route called with no client handler in flight
SetShowStatusOverride(profileId, showId, status) ==
    /\ SetShowStatusOverrideRoute(profileId, showId, status)
    /\ UNCHANGED clientVars
    /\ UNCHANGED <<clientToday, jobVars>>

\* DELETE /api/shows/:id
\* done: the DELETE statements of the transaction body that ran before it
\* threw (both when it did not throw before COMMIT).
RemoveShowRoute(profileId, showId, threw) ==
    /\ IF showId = 0
       THEN /\ lastCall' = Call("removeShow", 400)
            /\ UNCHANGED <<profile_shows, profile_episodes>>
       ELSE IF ~IsLinked(profileId, showId)
       THEN /\ lastCall' = Call("removeShow", 404)
            /\ UNCHANGED <<profile_shows, profile_episodes>>
       ELSE \E done \in 0..2 :
            LET showEpisodeIds == {e.id : e \in {x \in episodes : x.show_id = showId}}
                marksAfter ==
                    IF done < 1 THEN profile_episodes
                    ELSE {pe \in profile_episodes :
                            ~(pe.profile_id = profileId
                              /\ pe.episode_id \in showEpisodeIds)}
                linksAfter ==
                    IF done < 2 THEN profile_shows
                    ELSE {ps \in profile_shows :
                            ~(ps.profile_id = profileId /\ ps.show_id = showId)}
                committed == runTransaction(
                                 [links |-> profile_shows, marks |-> profile_episodes],
                                 [links |-> linksAfter, marks |-> marksAfter],
                                 threw)
            IN /\ ~threw => done = 2
               /\ profile_shows' = committed.links
               /\ profile_episodes' = committed.marks
               /\ lastCall' = Call("removeShow", IF threw THEN 500 ELSE 200)
    /\ UNCHANGED <<tvmaze, today, clock, shows, episodes, serverView, clientView>>

\* the route called with no client handler in flight
RemoveShow(profileId, showId, threw) ==
    /\ RemoveShowRoute(profileId, showId, threw)
    /\ UNCHANGED clientVars
    /\ UNCHANGED <<clientToday, jobVars>>

\* POST /api/episodes/:id/watch {watched}
ToggleEpisodeRoute(profileId, episodeId, watched) ==
    /\ IF ~\E e \in episodes : e.id = episodeId /\ IsLinked(profileId, e.show_id)
       THEN /\ lastCall' = Call("toggleEpisode", 404)
            /\ UNCHANGED profile_episodes
       ELSE /\ profile_episodes' =
                 IF watched
                 THEN UpsertMark(profile_episodes, profileId, episodeId, clock)
                 ELSE DeleteMark(profile_episodes, profileId, episodeId)
            /\ lastCall' = Call("toggleEpisode", 200)
    /\ UNCHANGED <<tvmaze, today, clock, shows, episodes, profile_shows,
                   serverView, clientView>>

\* the route called with no client handler in flight
ToggleEpisode(profileId, episodeId, watched) ==
    /\ ToggleEpisodeRoute(profileId, episodeId, watched)
    /\ UNCHANGED clientVars
    /\ UNCHANGED <<clientToday, jobVars>>

\* POST /api/shows/:id/seasons/:season/watch {watched}
\* stampOf: what nowIso() answers for each episode of the loop; done: the
\* episodes whose statement ran before the transaction body threw (all of
\* them when it did not throw before COMMIT).
ApplySeasonSteps(marks, profileId, done, watched, stampOf) ==
    IF watched
    THEN {pe \in marks : ~(pe.profile_id = profileId /\ pe.episode_id \in done)}
         \cup {[profile_id |-> profileId, episode_id |-> id,
                watched_at |-> stampOf[id]] : id \in done}
    ELSE {pe \in marks : ~(pe.profile_id = profileId /\ pe.episode_id \in done)}

ToggleSeasonRoute(profileId, showId, season, watched) ==
    /\ IF ~(IsLinked(profileId, showId) /\ \E sh \in shows : sh.id = showId)
       THEN /\ lastCall' = Call("toggleSeason", 404)
            /\ UNCHANGED <<clock, profile_episodes>>
       ELSE LET seasonIds == {e.id : e \in {x \in episodes :
                                  x.show_id = showId /\ x.season = season}}
            IN \E stampOf \in [seasonIds -> clock..MaxClock] :
               \E done \in SUBSET seasonIds :
               \E threw \in BOOLEAN :
                  /\ ~threw => done = seasonIds
                  /\ ~watched => \A id \in seasonIds : stampOf[id] = clock
                  /\ profile_episodes' =
                        runTransaction(
                            profile_episodes,
                            ApplySeasonSteps(profile_episodes, profileId, done,
                                             watched, stampOf),
                            threw)
                  /\ clock' = Max({clock} \cup {stampOf[id] : id \in done})
                  /\ lastCall' =
                        [op |-> "toggleSeason",
                         status |-> IF threw THEN 500 ELSE 200,
                         applied |-> IF threw THEN Cardinality(done) ELSE 0]
    /\ UNCHANGED <<tvmaze, today, shows, episodes, profile_shows,
                   serverView, clientView>>

\* the route called with no client handler in flight
ToggleSeason(profileId, showId, season, watched) ==
    /\ ToggleSeasonRoute(profileId, showId, season, watched)
    /\ UNCHANGED clientVars
    /\ UNCHANGED <<clientToday, jobVars>>

\* POST /api/import: one pass of the loop over payload.shows.  The passes of
\* a longer document are separated by the await on the catalog service, so
\* they act on the database as successive one-show documents.
RECURSIVE ImportWatched(_, _, _, _, _)
ImportWatched(marks, profileId, watchedEpisodes, episodeRows, now) ==
    IF watchedEpisodes = <<>> THEN marks
    ELSE LET episode == Head(watchedEpisodes)
             rows == {e \in episodeRows : e.tvmaze_id = episode.tvmazeEpisodeId}
             next ==
                 IF ~Truthy(episode.tvmazeEpisodeId) \/ rows = {} THEN marks
                 ELSE UpsertMark(marks, profileId, (CHOOSE e \in rows : TRUE).id,
                                 IF Truthy(episode.watchedAt)
                                 THEN episode.watchedAt ELSE now)
         IN ImportWatched(next, profileId, Tail(watchedEpisodes), episodeRows, now)

ImportDocs ==
    {[tvmazeId |-> t, watchedEpisodes |-> w] :
        t \in {0} \cup TvShows,
        w \in {<<>>,
               <<[tvmazeEpisodeId |-> 0, watchedAt |-> NoStamp]>>,
               <<[tvmazeEpisodeId |-> 11, watchedAt |-> 1]>>,
               <<[tvmazeEpisodeId |-> 21, watchedAt |-> NoStamp]>>,
               <<[tvmazeEpisodeId |-> 11, watchedAt |-> NoStamp],
                 [tvmazeEpisodeId |-> 12, watchedAt |-> NoStamp]>>}}

ImportRoute(profileId, doc, fetchOk) ==
    /\ IF ~Truthy(doc.tvmazeId)
       THEN /\ lastCall' = Call("import", 200)
            /\ UNCHANGED <<shows, episodes, profile_shows, profile_episodes>>
       ELSE IF ~fetchOk
       THEN /\ lastCall' = Call("import", 500)
            /\ UNCHANGED <<shows, episodes, profile_shows, profile_episodes>>
       ELSE LET up == upsertShowWithEpisodes(shows, episodes, doc.tvmazeId, tvmaze)
            IN /\ shows' = up.shows
               /\ episodes' = up.episodes
               /\ profile_shows' =
                    IF IsLinked(profileId, up.showId) THEN profile_shows
                    ELSE profile_shows \cup
                         {[profile_id |-> profileId, show_id |-> up.showId,
                           status |-> NULL]}
               /\ profile_episodes' =
                    ImportWatched(profile_episodes, profileId,
                                  doc.watchedEpisodes, up.episodes, clock)
               /\ lastCall' = Call("import", 200)
    /\ UNCHANGED <<tvmaze, today, clock, serverView, clientView>>

\* a pass of the import of a document sent by the client in one request
Import(profileId, doc, fetchOk) ==
    /\ ImportRoute(profileId, doc, fetchOk)
    /\ UNCHANGED clientVars
    /\ UNCHANGED <<clientToday, jobVars>>

\* ------------------------------------- catalog refresh and add show
\* a pass that starts whatever the flag says
runSyncNeverReturnsEarly(inProgress) == FALSE

\* if (tvmazeSyncInProgress) { return; }
runSyncReturnsEarly(inProgress) == inProgress

\* SELECT DISTINCT tvmaze_id FROM shows
SyncRows == {sh.tvmaze_id : sh \in shows}

RemoveAt(seq, i) == SubSeq(seq, 1, i - 1) \o SubSeq(seq, i + 1, Len(seq))

\* runSync is called, at startup or by setInterval.  It runs up to its first
\* await: the flag test, the SELECT and the call of fetchShow for the first row.
RunSync ==
    /\ Len(syncPasses) < MaxPasses
    /\ lastCall' = Call("runSync", 0)
    /\ IF runSyncReturnsEarly(tvmazeSyncInProgress)
       THEN UNCHANGED <<tvmazeSyncInProgress, syncPasses>>
       ELSE \E rows \in QueryOrders(SyncRows) :
               IF rows = <<>>
               THEN UNCHANGED <<tvmazeSyncInProgress, syncPasses>>
               ELSE /\ tvmazeSyncInProgress' = TRUE
                    /\ syncPasses' =
                          Append(syncPasses, [rows |-> rows, phase |-> "fetchShow"])
    /\ UNCHANGED <<tvmaze, today, clock, shows, episodes, profile_shows,
                   profile_episodes, serverView, clientView>>
    /\ UNCHANGED clientVars
    /\ UNCHANGED <<clientToday, exported, addCalls, released>>

\* pass i resumes after an await: fetchShow, fetchEpisodes (followed by the
\* upsert) or sleep; a failed fetch is caught and logged, and the finally
\* block clears the flag after the last row
SyncResume(i, fetchOk) ==
    /\ i \in DOMAIN syncPasses
    /\ LET pass == syncPasses[i]
           tvmazeId == Head(pass.rows)
           up == upsertShowWithEpisodes(shows, episodes, tvmazeId, tvmaze)
       IN CASE pass.phase = "fetchShow" /\ fetchOk ->
                  /\ syncPasses' = [syncPasses EXCEPT ![i].phase = "fetchEpisodes"]
                  /\ UNCHANGED <<shows, episodes, lastCall, tvmazeSyncInProgress>>
            [] pass.phase = "fetchEpisodes" /\ fetchOk ->
                  /\ shows' = up.shows
                  /\ episodes' = up.episodes
                  /\ lastCall' = Call("syncShow", 200)
                  /\ syncPasses' = [syncPasses EXCEPT ![i].phase = "sleep"]
                  /\ UNCHANGED tvmazeSyncInProgress
            [] pass.phase \in {"fetchShow", "fetchEpisodes"} /\ ~fetchOk ->
                  /\ lastCall' = Call("syncShow", 500)
                  /\ syncPasses' = [syncPasses EXCEPT ![i].phase = "sleep"]
                  /\ UNCHANGED <<shows, episodes, tvmazeSyncInProgress>>
            [] pass.phase = "sleep" /\ fetchOk /\ Len(pass.rows) > 1 ->
                  /\ syncPasses' = [syncPasses EXCEPT ![i].rows = Tail(pass.rows),
                                                      ![i].phase = "fetchShow"]
                  /\ UNCHANGED <<shows, episodes, lastCall, tvmazeSyncInProgress>>
            [] pass.phase = "sleep" /\ fetchOk /\ Len(pass.rows) = 1 ->
                  /\ tvmazeSyncInProgress' = FALSE
                  /\ syncPasses' = RemoveAt(syncPasses, i)
                  /\ UNCHANGED <<shows, episodes, lastCall>>
            [] OTHER -> FALSE
    /\ UNCHANGED <<tvmaze, today, clock, profile_shows, profile_episodes,
                   serverView, clientView>>
    /\ UNCHANGED clientVars
    /\ UNCHANGED <<clientToday, exported, addCalls, released>>

\* POST /api/shows {tvmazeId} up to its first await, the call of fetchShow
AddShowBegin(profileId, tvmazeId) ==
    /\ Len(addCalls) < MaxAdds
    /\ IF ~Truthy(tvmazeId)
       THEN /\ lastCall' = Call("addShow", 400)
            /\ UNCHANGED addCalls
       ELSE /\ addCalls' = Append(addCalls, [profileId |-> profileId,
                                              tvmazeId |-> tvmazeId,
                                              phase |-> "fetchShow"])
            /\ UNCHANGED lastCall
    /\ UNCHANGED <<tvmaze, today, clock, shows, episodes, profile_shows,
                   profile_episodes, serverView, clientView>>
    /\ UNCHANGED clientVars
    /\ UNCHANGED <<clientToday, exported, tvmazeSyncInProgress, syncPasses, released>>

\* call i of POST /api/shows resumes after fetchShow or after fetchEpisodes;
\* after the latter the upsert and INSERT OR IGNORE INTO profile_shows run
AddShowResume(i, fetchOk) ==
    /\ i \in DOMAIN addCalls
    /\ LET call == addCalls[i]
           up == upsertShowWithEpisodes(shows, episodes, call.tvmazeId, tvmaze)
       IN CASE ~fetchOk ->
                  /\ lastCall' = Call("addShow", 500)
                  /\ addCalls' = RemoveAt(addCalls, i)
                  /\ UNCHANGED <<shows, episodes, profile_shows>>
            [] fetchOk /\ call.phase = "fetchShow" ->
                  /\ addCalls' = [addCalls EXCEPT ![i].phase = "fetchEpisodes"]
                  /\ UNCHANGED <<shows, episodes, profile_shows, lastCall>>
            [] fetchOk /\ call.phase = "fetchEpisodes" ->
                  /\ shows' = up.shows
                  /\ episodes' = up.episodes
                  /\ profile_shows' =
                        IF IsLinked(call.profileId, up.showId) THEN profile_shows
                        ELSE profile_shows \cup
                             {[profile_id |-> call.profileId,
                               show_id |-> up.showId, status |-> NULL]}
                  /\ lastCall' = Call("addShow", 200)
                  /\ addCalls' = RemoveAt(addCalls, i)
    /\ UNCHANGED <<tvmaze, today, clock, profile_episodes, serverView, clientView>>
    /\ UNCHANGED clientVars
    /\ UNCHANGED <<clientToday, exported, tvmazeSyncInProgress, syncPasses, released>>

\* ------------------------------------------- isReleased on date strings
\* the client evaluates isReleased(airdate) at the local time of the probe
ClientIsReleased ==
    /\ "client" \notin released.evaluated
    /\ released' = [released EXCEPT
                       !.client = clientIsReleasedString(released.airdate,
                                      formatLocalDate(released.now)),
                       !.evaluated = @ \cup {"client"}]
    /\ UNCHANGED serverVars
    /\ UNCHANGED clientVars
    /\ UNCHANGED <<clientToday, exported, tvmazeSyncInProgress, syncPasses, addCalls>>

\* the server evaluates isReleased(airdate) at the local time of the probe
ServerIsReleased ==
    /\ "server" \notin released.evaluated
    /\ released' = [released EXCEPT
                       !.server = serverIsReleasedString(released.airdate,
                                      serverFormatLocalDate(released.now)),
                       !.evaluated = @ \cup {"server"}]
    /\ UNCHANGED serverVars
    /\ UNCHANGED clientVars
    /\ UNCHANGED <<clientToday, exported, tvmazeSyncInProgress, syncPasses, addCalls>>

\* ------------------------------------------------ export and re-import
\* the profile an exported document is imported into
FreshProfile == 2

\* SELECT s.id, s.tvmaze_id ... JOIN profile_shows ps ... WHERE ps.profile_id
\* = ? AND (ps.status IS NULL OR ps.status != 'stopped')
ExportShowRows(profileId) ==
    {sh \in shows :
        \E ps \in profile_shows :
            /\ ps.profile_id = profileId /\ ps.show_id = sh.id
            /\ (ps.status = NULL \/ ps.status # "stopped")}

\* SELECT e.tvmaze_id, e.show_id, pe.watched_at FROM profile_episodes pe
\* JOIN episodes e ON e.id = pe.episode_id WHERE pe.profile_id = ?
ExportMarkRows(profileId) ==
    {[id |-> pair[2].id, tvmaze_id |-> pair[2].tvmaze_id,
      show_id |-> pair[2].show_id, watched_at |-> pair[1].watched_at] :
        pair \in {x \in profile_episodes \X episodes :
                     x[1].profile_id = profileId /\ x[2].id = x[1].episode_id}}

\* watchedByShow.get(show.id) || []
WatchedByShow(showId, markOrder) ==
    LET own == SelectSeq(markOrder, LAMBDA r : r.show_id = showId)
    IN [i \in 1..Len(own) |->
           [tvmazeEpisodeId |-> own[i].tvmaze_id, watchedAt |-> own[i].watched_at]]

buildProfileExport(showOrder, markOrder) ==
    [i \in 1..Len(showOrder) |->
        [tvmazeId |-> showOrder[i].tvmaze_id,
         watchedEpisodes |-> WatchedByShow(showOrder[i].id, markOrder)]]

\* GET /api/export: the document leaves for the profile that will import it
Export(profileId) ==
    /\ exported.phase = "none"
    /\ \E showOrder \in QueryOrders(ExportShowRows(profileId)) :
       \E markOrder \in QueryOrders(ExportMarkRows(profileId)) :
          exported' = [phase |-> "exported",
                       shows |-> buildProfileExport(showOrder, markOrder)]
    /\ UNCHANGED serverVars
    /\ UNCHANGED clientVars
    /\ UNCHANGED <<clientToday, tvmazeSyncInProgress, syncPasses, addCalls, released>>

\* POST /api/import with the exported document: one pass of the loop over
\* payload.shows, or the answer after the last pass
ImportExported(profileId, fetchOk) ==
    /\ exported.phase = "exported"
    /\ IF exported.shows = <<>>
       THEN /\ exported' = [exported EXCEPT !.phase = "imported"]
            /\ lastCall' = Call("import", 200)
            /\ UNCHANGED <<tvmaze, today, clock, shows, episodes, profile_shows,
                           profile_episodes, serverView, clientView>>
       ELSE /\ ImportRoute(profileId, Head(exported.shows), fetchOk)
            /\ exported' = IF fetchOk
                           THEN [exported EXCEPT !.shows = Tail(exported.shows)]
                           ELSE [phase |-> "failed", shows |-> <<>>]
    /\ UNCHANGED clientVars
    /\ UNCHANGED <<clientToday, tvmazeSyncInProgress, syncPasses, addCalls, released>>

\* GET /api/shows: the client receives the entry of one show
GetShows(profileId) ==
    /\ \E order \in QueryOrders(ProfileEpisodeRows(profileId)) :
       \E entry \in listShowsForProfile(profileId, order) :
          serverView' = ViewOf(entry.id, entry)
    /\ UNCHANGED <<tvmaze, today, clock, shows, episodes, profile_shows,
                   profile_episodes, lastCall, clientView>>
    /\ UNCHANGED clientVars
    /\ UNCHANGED <<clientToday, jobVars>>

\* the client loads GET /api/shows/:id and derives state, stats and next
\* episode from it (buildOptimisticShowDetail)
ClientDerive(profileId, showId) ==
    /\ IsLinked(profileId, showId)
    /\ clientView' =
          ViewOf(showId,
                 buildOptimisticShowDetail(ShowDetail(profileId, showId),
                                           clientToday))
    /\ UNCHANGED <<tvmaze, today, clock, shows, episodes, profile_shows,
                   profile_episodes, lastCall, serverView>>
    /\ UNCHANGED clientVars
    /\ UNCHANGED <<clientToday, jobVars>>

\* ------------------------------------------------- the client's mirror
\* the profile of the client's session (activeProfile)
ActiveProfile == CHOOSE p \in Profiles : TRUE


countWatchedEpisodes(eps) == Len(SelectSeq(eps, LAMBDA e : e.watched))

updateSeasonFromEpisodes(season, eps) ==
    [season EXCEPT !.episodes = eps,
                   !.watchedCount = countWatchedEpisodes(eps),
                   !.watched = /\ season.totalCount > 0
                               /\ countWatchedEpisodes(eps) = season.totalCount]

applyEpisodeToggle(detail, episodeId, watched) ==
    [detail EXCEPT !.seasons =
        [i \in 1..Len(detail.seasons) |->
            LET season == detail.seasons[i]
                eps == [j \in 1..Len(season.episodes) |->
                          IF season.episodes[j].id = episodeId
                          THEN [season.episodes[j] EXCEPT !.watched = watched]
                          ELSE season.episodes[j]]
            IN IF eps = season.episodes THEN season
               ELSE updateSeasonFromEpisodes(season, eps)]]

applySeasonToggle(detail, seasonNumber, watched) ==
    [detail EXCEPT !.seasons =
        [i \in 1..Len(detail.seasons) |->
            LET season == detail.seasons[i]
            IN IF season.season # seasonNumber THEN season
               ELSE [season EXCEPT
                        !.episodes = [j \in 1..Len(season.episodes) |->
                                        [season.episodes[j] EXCEPT !.watched = watched]],
                        !.watchedCount = IF watched THEN season.totalCount ELSE 0,
                        !.watched = watched /\ season.totalCount > 0]]]

\* buildOptimisticShowDetail(detail).detail
optimisticPayloadDetail(detail, todayDate) ==
    [detail EXCEPT !.show.state = buildOptimisticShowDetail(detail, todayDate).state]

\* a mapping without the line for queued
getCategoryIdWithoutQueued(state) ==
    IF state = "stopped" THEN "stopped"
    ELSE IF state = "watching" THEN "watching"
    ELSE IF state = "watch-next" THEN "watch-next"
    ELSE IF state = "up-to-date" THEN "up-to-date"
    ELSE "completed"

getCategoryId(state) ==
    IF state = "stopped" THEN "stopped"
    ELSE IF state = "watching" THEN "watching"
    ELSE IF state = "watch-next" THEN "watch-next"
    ELSE IF state = "queued" THEN "queued"
    ELSE IF state = "up-to-date" THEN "up-to-date"
    ELSE "completed"

\* [...shows, show].sort by name.localeCompare (a stable sort)
insertShowSorted(listed, show) ==
    LET next == Append(listed, show)
        n == Len(next)
        perm == CHOOSE f \in [1..n -> 1..n] :
                    /\ \A i \in 1..n : \E j \in 1..n : f[j] = i
                    /\ \A i \in 1..n : \A j \in 1..n :
                          i < j =>
                             \/ NameRank(next[f[i]].name) < NameRank(next[f[j]].name)
                             \/ /\ NameRank(next[f[i]].name) = NameRank(next[f[j]].name)
                                /\ f[i] < f[j]
    IN [i \in 1..n |-> next[perm[i]]]

RECURSIVE flattenShows(_)
flattenShows(cats) ==
    IF cats = <<>> THEN <<>> ELSE Head(cats).shows \o flattenShows(Tail(cats))

updateCategoriesWithOptimisticShow(cats, detail, computed) ==
    LET showId == detail.show.id
        found == SelectSeq(flattenShows(cats), LAMBDA sh : sh.id = showId)
        existingShow == found[Len(found)]
        strippedCategories ==
            [i \in 1..Len(cats) |->
                [cats[i] EXCEPT !.shows = SelectSeq(@, LAMBDA sh : sh.id # showId)]]
        updatedShow ==
            [existingShow EXCEPT
                !.name = detail.show.name,
                !.profileStatus = IF detail.show.profileStatus # NULL
                                  THEN detail.show.profileStatus
                                  ELSE existingShow.profileStatus,
                !.state = computed.state,
                !.stats = computed.stats,
                !.nextEpisode = computed.nextEpisode]
        targetId == getCategoryId(computed.state)
    IN IF ~Truthy(showId) \/ found = <<>> THEN cats
       ELSE [i \in 1..Len(cats) |->
               IF strippedCategories[i].id # targetId THEN strippedCategories[i]
               ELSE [strippedCategories[i] EXCEPT
                        !.shows = insertShowSorted(@, updatedShow)]]

\* ShowDetailView: the buttons the detail view offers
canToggleStatus(show) == show.state # "completed"
canRemove(show) == show.profileStatus = "stopped"

\* a handler that keeps the showDetail of the render in which an earlier
\* handler, still in flight, was started
closureDetailAtFirstIssue(detail, inFlight) ==
    LET earlier == SelectSeq(inFlight, LAMBDA r : r.kind \in {"toggleEpisode", "toggleSeason"}
                                                  /\ r.phase \notin {"done", "failed"})
    IN IF earlier = <<>> THEN detail ELSE earlier[1].previousDetail

\* const previousDetail = showDetail: the handler of the latest render reads
\* the snapshot every earlier setShowDetail has produced
closureDetail(detail, inFlight) == detail

\* a catch block that restores the detail snapshot only
catchRestoreDetailOnly(request, cats) ==
    [showDetail |-> request.previousDetail, categories |-> cats]

\* catch: setShowDetail(previousDetail); setCategories(previousCategories)
catchRestore(request, cats) ==
    [showDetail |-> request.previousDetail,
     categories |-> request.previousCategories]

\* one call of a client handler: the request it has sent or is about to
\* send (phase), what its closure holds, and the answer on its way back
Handler(kind, showId, target, watched, status, previousDetail, previousCategories) ==
    [kind |-> kind, showId |-> showId, target |-> target, watched |-> watched,
     status |-> status, previousDetail |-> previousDetail,
     previousCategories |-> previousCategories,
     phase |-> "post", ok |-> TRUE, detailData |-> NoDetail, showsData |-> <<>>]

\* handler i has returned ("done") or thrown ("failed"): its closure is gone
Finished(inFlight, i, how) ==
    [inFlight EXCEPT ![i].phase = how,
                     ![i].previousDetail = NoDetail,
                     ![i].previousCategories = <<>>,
                     ![i].detailData = NoDetail,
                     ![i].showsData = <<>>]

Toggles == {"toggleEpisode", "toggleSeason"}

\* toggleEpisode(episodeId, watched) up to its first await
ClientToggleEpisode(episodeId, watched) ==
    /\ Len(requests) < MaxCalls
    /\ showDetail.show.id # 0
    /\ \E i \in 1..Len(flattenEpisodes(showDetail.seasons)) :
          flattenEpisodes(showDetail.seasons)[i].id = episodeId
    /\ LET previousDetail == closureDetail(showDetail, requests)
           applied == applyEpisodeToggle(previousDetail, episodeId, watched)
           optimistic == optimisticPayloadDetail(applied, clientToday)
           computed == buildOptimisticShowDetail(applied, clientToday)
       IN /\ showDetail' = optimistic
          /\ categories' =
                updateCategoriesWithOptimisticShow(categories, optimistic, computed)
          /\ requests' =
                Append(requests,
                       Handler("toggleEpisode", previousDetail.show.id, episodeId,
                               watched, NULL, previousDetail, categories))
    /\ UNCHANGED serverVars
    /\ UNCHANGED <<clientToday, jobVars>>

\* toggleSeason(seasonNumber, watched) up to its first await
ClientToggleSeason(seasonNumber, watched) ==
    /\ Len(requests) < MaxCalls
    /\ showDetail.show.id # 0
    /\ \E i \in 1..Len(showDetail.seasons) :
          showDetail.seasons[i].season = seasonNumber
    /\ LET previousDetail == closureDetail(showDetail, requests)
           applied == applySeasonToggle(previousDetail, seasonNumber, watched)
           optimistic == optimisticPayloadDetail(applied, clientToday)
           computed == buildOptimisticShowDetail(applied, clientToday)
       IN /\ showDetail' = optimistic
          /\ categories' =
                updateCategoriesWithOptimisticShow(categories, optimistic, computed)
          /\ requests' =
                Append(requests,
                       Handler("toggleSeason", previousDetail.show.id, seasonNumber,
                               watched, NULL, previousDetail, categories))
    /\ UNCHANGED serverVars
    /\ UNCHANGED <<clientToday, jobVars>>

\* the Stop Watching / Resume Watching button: handleShowStatus up to its
\* first await
ClientSetStatus ==
    /\ Len(requests) < MaxCalls
    /\ showDetail.show.id # 0
    /\ canToggleStatus(showDetail.show)
    /\ requests' =
          Append(requests,
                 Handler("setStatus", showDetail.show.id, 0, FALSE,
                         IF showDetail.show.profileStatus = "stopped"
                         THEN NULL ELSE "stopped",
                         NoDetail, <<>>))
    /\ UNCHANGED <<showDetail, categories>>
    /\ UNCHANGED serverVars
    /\ UNCHANGED <<clientToday, jobVars>>

\* the Remove button and its confirmation: handleShowRemove up to its first
\* await
ClientRemoveShow ==
    /\ Len(requests) < MaxCalls
    /\ showDetail.show.id # 0
    /\ canRemove(showDetail.show)
    /\ requests' =
          Append(requests,
                 Handler("removeShow", showDetail.show.id, 0, FALSE, NULL,
                         NoDetail, <<>>))
    /\ UNCHANGED <<showDetail, categories>>
    /\ UNCHANGED serverVars
    /\ UNCHANGED <<clientToday, jobVars>>

\* the server handles the mutation request of handler i
ServerMutation(i) ==
    /\ i \in DOMAIN requests
    /\ requests[i].phase = "post"
    /\ LET r == requests[i]
       IN CASE r.kind = "toggleEpisode" ->
                  ToggleEpisodeRoute(ActiveProfile, r.target, r.watched)
            [] r.kind = "toggleSeason" ->
                  ToggleSeasonRoute(ActiveProfile, r.showId, r.target, r.watched)
            [] r.kind = "setStatus" ->
                  SetShowStatusOverrideRoute(ActiveProfile, r.showId, r.status)
            [] r.kind = "removeShow" ->
                  \E threw \in BOOLEAN :
                      RemoveShowRoute(ActiveProfile, r.showId, threw)
    /\ requests' = [requests EXCEPT ![i].phase = "postDone",
                                    ![i].ok = (lastCall'.status = 200)]
    /\ UNCHANGED <<showDetail, categories>>
    /\ UNCHANGED <<clientToday, jobVars>>

\* the server handles the GET /api/shows/:id of loadShowDetail
ServerDetail(i) ==
    /\ i \in DOMAIN requests
    /\ requests[i].phase = "detail"
    /\ requests' =
          [requests EXCEPT
              ![i].phase = "detailDone",
              ![i].ok = IsLinked(ActiveProfile, requests[i].showId),
              ![i].detailData =
                  IF IsLinked(ActiveProfile, requests[i].showId)
                  THEN ShowDetail(ActiveProfile, requests[i].showId)
                  ELSE NoDetail]
    /\ UNCHANGED <<showDetail, categories>>
    /\ UNCHANGED serverVars
    /\ UNCHANGED <<clientToday, jobVars>>

\* the server handles the GET /api/shows of loadShows
ServerShows(i) ==
    /\ i \in DOMAIN requests
    /\ requests[i].phase = "shows"
    /\ \E order \in ListingOrders(ActiveProfile) :
          requests' =
              [requests EXCEPT ![i].phase = "showsDone",
                               ![i].ok = TRUE,
                               ![i].showsData = Categories(ActiveProfile, order)]
    /\ UNCHANGED <<showDetail, categories>>
    /\ UNCHANGED serverVars
    /\ UNCHANGED <<clientToday, jobVars>>

\* apiFetch rejects without the server having handled the request
FetchFails(i) ==
    /\ i \in DOMAIN requests
    /\ requests[i].phase \in {"post", "detail", "shows"}
    /\ requests' =
          [requests EXCEPT
              ![i].phase = CASE requests[i].phase = "post" -> "postDone"
                             [] requests[i].phase = "detail" -> "detailDone"
                             [] OTHER -> "showsDone",
              ![i].ok = FALSE]
    /\ UNCHANGED <<showDetail, categories>>
    /\ UNCHANGED serverVars
    /\ UNCHANGED <<clientToday, jobVars>>

\* the throw of a rejected fetch reaches the handler's catch, if it has one
HandlerThrows(i) ==
    /\ IF requests[i].kind \in Toggles
       THEN /\ showDetail' = catchRestore(requests[i], categories).showDetail
            /\ categories' = catchRestore(requests[i], categories).categories
       ELSE UNCHANGED <<showDetail, categories>>
    /\ requests' = Finished(requests, i, "failed")

\* handler i resumes after the await of its mutation request
ClientPostResponse(i) ==
    /\ i \in DOMAIN requests
    /\ requests[i].phase = "postDone"
    /\ IF ~requests[i].ok THEN HandlerThrows(i)
       ELSE IF requests[i].kind = "removeShow"
       THEN \* showDetail?.show?.id === showId held when the button was shown
            /\ showDetail' = NoDetail
            /\ UNCHANGED categories
            /\ requests' = [requests EXCEPT ![i].phase = "shows"]
       ELSE /\ requests' = [requests EXCEPT ![i].phase = "detail"]
            /\ UNCHANGED <<showDetail, categories>>
    /\ UNCHANGED serverVars
    /\ UNCHANGED <<clientToday, jobVars>>

\* handler i resumes after the await in loadShowDetail(showId, {silent})
ClientDetailResponse(i) ==
    /\ i \in DOMAIN requests
    /\ requests[i].phase = "detailDone"
    /\ IF ~requests[i].ok THEN HandlerThrows(i)
       ELSE /\ showDetail' = requests[i].detailData
            /\ UNCHANGED categories
            /\ requests' = [requests EXCEPT ![i].phase = "shows",
                                            ![i].detailData = NoDetail]
    /\ UNCHANGED serverVars
    /\ UNCHANGED <<clientToday, jobVars>>

\* handler i resumes after the await in loadShows and returns (the calendar
\* reload of handleShowStatus and handleShowRemove touches neither snapshot)
ClientShowsResponse(i) ==
    /\ i \in DOMAIN requests
    /\ requests[i].phase = "showsDone"
    /\ IF ~requests[i].ok THEN HandlerThrows(i)
       ELSE /\ categories' = requests[i].showsData
            /\ UNCHANGED showDetail
            /\ requests' = Finished(requests, i, "done")
    /\ UNCHANGED serverVars
    /\ UNCHANGED <<clientToday, jobVars>>

\* ----------------------------------------------------------- specifications
Seasons == {1, 2}
ShowRowIds == 0..Cardinality(TvShows)

Next ==
    \/ Tick
    \/ \E p \in Profiles, t \in TvShows, ok \in BOOLEAN : AddShow(p, t, ok)
    \/ \E p \in Profiles, sh \in ShowRowIds, st \in {NULL, "stopped", "paused"} :
          SetShowStatusOverride(p, sh, st)
    \/ \E p \in Profiles, sh \in ShowRowIds, threw \in BOOLEAN :
          RemoveShow(p, sh, threw)
    \/ \E p \in Profiles, e \in RowIds, w \in BOOLEAN : ToggleEpisode(p, e, w)
    \/ \E p \in Profiles, sh \in ShowRowIds, n \in Seasons, w \in BOOLEAN :
          ToggleSeason(p, sh, n, w)
    \/ \E p \in Profiles, doc \in ImportDocs : Import(p, doc, TRUE)
    \/ \E p \in Profiles, doc \in {d \in ImportDocs : d.watchedEpisodes = <<>>} :
          Import(p, doc, FALSE)

Spec == Init /\ [][Next]_vars

\* The derivation as a function of its inputs: every catalog, date, override
\* and set of watch marks of one linked show.
AllCatalogs ==
    {[status |-> [t \in TvShows |-> IF t = 10 THEN st ELSE "Running"],
      airdate |-> [e \in TvEpisodeIds |-> IF e = 21 THEN 1 ELSE a[e]]] :
        st \in Statuses \cup {NULL}, a \in [{11, 12, 13} -> Airdates]}

InitDerive ==
    /\ tvmaze \in AllCatalogs
    /\ today \in Dates
    /\ clock = 1
    /\ LET up == upsertShowWithEpisodes({}, {}, 10, tvmaze)
       IN /\ shows = up.shows
          /\ episodes = up.episodes
          /\ \E st \in {NULL, "stopped"} :
                profile_shows = {[profile_id |-> 1, show_id |-> up.showId,
                                  status |-> st]}
          /\ \E watchedIds \in SUBSET {e.id : e \in up.episodes} :
                profile_episodes =
                    {[profile_id |-> 1, episode_id |-> id, watched_at |-> 1] :
                        id \in watchedIds}
    /\ lastCall = NoCall
    /\ serverView = NoView
    /\ clientView = NoView
    /\ showDetail = NoDetail
    /\ categories = <<>>
    /\ requests = <<>>
    /\ clientToday = today
    /\ JobsIdle

NextDerive ==
    \/ \E p \in Profiles : GetShows(p)
    \/ \E p \in Profiles, sh \in ShowRowIds : ClientDerive(p, sh)

SpecDerive == InitDerive /\ [][NextDerive]_vars

\* The season toggle from every set of watch marks of a linked show; the
\* second show is in the catalog store but not linked.
InitSeason ==
    /\ tvmaze \in ServiceCatalogs
    /\ today = 2
    /\ clock = 1
    /\ LET first == upsertShowWithEpisodes({}, {}, 10, tvmaze)
           up == upsertShowWithEpisodes(first.shows, first.episodes, 20, tvmaze)
       IN /\ shows = up.shows
          /\ episodes = up.episodes
          /\ profile_shows = {[profile_id |-> 1, show_id |-> first.showId,
                               status |-> NULL]}
          /\ \E watchedIds \in SUBSET {e.id : e \in first.episodes} :
                profile_episodes =
                    {[profile_id |-> 1, episode_id |-> id, watched_at |-> 1] :
                        id \in watchedIds}
    /\ lastCall = NoCall
    /\ serverView = NoView
    /\ clientView = NoView
    /\ showDetail = NoDetail
    /\ categories = <<>>
    /\ requests = <<>>
    /\ clientToday = today
    /\ JobsIdle

NextSeason ==
    \/ Tick
    \/ \E p \in Profiles, sh \in ShowRowIds, n \in Seasons, w \in BOOLEAN :
          ToggleSeason(p, sh, n, w)

SpecSeason == InitSeason /\ [][NextSeason]_vars

\* The mutations of the marks and of the link of one show from every set of
\* watch marks and either override; the second show is in the catalog store
\* but not linked.
InitMutate ==
    /\ tvmaze \in ServiceCatalogs
    /\ today = 2
    /\ clock = 1
    /\ LET first == upsertShowWithEpisodes({}, {}, 10, tvmaze)
           up == upsertShowWithEpisodes(first.shows, first.episodes, 20, tvmaze)
       IN /\ shows = up.shows
          /\ episodes = up.episodes
          /\ \E st \in {NULL, "stopped"} :
                profile_shows = {[profile_id |-> 1, show_id |-> first.showId,
                                  status |-> st]}
          /\ \E watchedIds \in SUBSET {e.id : e \in first.episodes} :
                profile_episodes =
                    {[profile_id |-> 1, episode_id |-> id, watched_at |-> 1] :
                        id \in watchedIds}
    /\ lastCall = NoCall
    /\ serverView = NoView
    /\ clientView = NoView
    /\ showDetail = NoDetail
    /\ categories = <<>>
    /\ requests = <<>>
    /\ clientToday = today
    /\ JobsIdle

NextMutate ==
    \/ Tick
    \/ \E p \in Profiles, sh \in ShowRowIds, st \in {NULL, "stopped", "paused"} :
          SetShowStatusOverride(p, sh, st)
    \/ \E p \in Profiles, sh \in ShowRowIds, threw \in BOOLEAN :
          RemoveShow(p, sh, threw)
    \/ \E p \in Profiles, e \in RowIds, w \in BOOLEAN : ToggleEpisode(p, e, w)
    \/ \E p \in Profiles, sh \in ShowRowIds, n \in Seasons, w \in BOOLEAN :
          ToggleSeason(p, sh, n, w)

SpecMutate == InitMutate /\ [][NextMutate]_vars

\* The client with the detail view of the first show open and both shows
\* linked, loaded from the server: the state after loadShowDetail and
\* loadShows have returned and no handler is in flight.
Loaded(overrides, watchedSets) ==
    /\ tvmaze \in ServiceCatalogs
    /\ today = 2
    /\ clock = MaxClock
    /\ LET first == upsertShowWithEpisodes({}, {}, 10, tvmaze)
           up == upsertShowWithEpisodes(first.shows, first.episodes, 20, tvmaze)
       IN /\ shows = up.shows
          /\ episodes = up.episodes
          /\ \E st \in overrides :
                profile_shows =
                    {[profile_id |-> ActiveProfile, show_id |-> first.showId,
                      status |-> st],
                     [profile_id |-> ActiveProfile, show_id |-> up.showId,
                      status |-> NULL]}
          /\ \E tvWatched \in watchedSets :
                profile_episodes =
                    {[profile_id |-> ActiveProfile, episode_id |-> e.id,
                      watched_at |-> clock] :
                        e \in {x \in first.episodes : x.tvmaze_id \in tvWatched}}
          /\ lastCall = NoCall
          /\ serverView = NoView
          /\ clientView = NoView
          /\ showDetail = ShowDetail(ActiveProfile, first.showId)
          /\ \E order \in ListingOrders(ActiveProfile) :
                categories = Categories(ActiveProfile, order)
          /\ requests = <<>>
    /\ clientToday = today
    /\ JobsIdle

Slots == 1..MaxCalls

\* The episode and season buttons of the detail view, MaxCalls clicks in
\* all, from every set of watch marks of the open show.
InitClient == Loaded({NULL}, SUBSET {11, 12, 13})

NextClient ==
    \/ \E e \in RowIds, w \in BOOLEAN :
          /\ \E i \in 1..Len(flattenEpisodes(showDetail.seasons)) :
                /\ flattenEpisodes(showDetail.seasons)[i].id = e
                /\ flattenEpisodes(showDetail.seasons)[i].watched = ~w
          /\ ClientToggleEpisode(e, w)
    \/ \E n \in Seasons, w \in BOOLEAN :
          /\ \E i \in 1..Len(showDetail.seasons) :
                /\ showDetail.seasons[i].season = n
                /\ showDetail.seasons[i].watched = ~w
          /\ ClientToggleSeason(n, w)
    \/ \E i \in Slots : ServerMutation(i)
    \/ \E i \in Slots : ServerDetail(i)
    \/ \E i \in Slots : ServerShows(i)
    \/ \E i \in Slots : FetchFails(i)
    \/ \E i \in Slots : ClientPostResponse(i)
    \/ \E i \in Slots : ClientDetailResponse(i)
    \/ \E i \in Slots : ClientShowsResponse(i)

SpecClient == InitClient /\ [][NextClient]_vars

\* The status and remove buttons of the detail view, MaxCalls clicks in all,
\* from either override of the open show.
InitRemove == Loaded({NULL, "stopped"}, {{}, {11}})

NextRemove ==
    \/ ClientSetStatus
    \/ ClientRemoveShow
    \/ \E i \in Slots : ServerMutation(i)
    \/ \E i \in Slots : ServerDetail(i)
    \/ \E i \in Slots : ServerShows(i)
    \/ \E i \in Slots : FetchFails(i)
    \/ \E i \in Slots : ClientPostResponse(i)
    \/ \E i \in Slots : ClientDetailResponse(i)
    \/ \E i \in Slots : ClientShowsResponse(i)

SpecRemove == InitRemove /\ [][NextRemove]_vars

\* A profile with both shows linked, the first one stopped or not, and
\* every set of watch marks with their timestamps; the other profile is new.
InitRoundTrip ==
    /\ tvmaze \in ServiceCatalogs
    /\ today = 2
    /\ clock = MaxClock
    /\ LET first == upsertShowWithEpisodes({}, {}, 10, tvmaze)
           up == upsertShowWithEpisodes(first.shows, first.episodes, 20, tvmaze)
       IN /\ shows = up.shows
          /\ episodes = up.episodes
          /\ \E st \in {NULL, "stopped"} :
                profile_shows =
                    {[profile_id |-> ActiveProfile, show_id |-> first.showId,
                      status |-> st],
                     [profile_id |-> ActiveProfile, show_id |-> up.showId,
                      status |-> NULL]}
          /\ \E tvWatched \in SUBSET {11, 12, 21} :
             \E stampOf \in [tvWatched -> Stamps] :
                profile_episodes =
                    {[profile_id |-> ActiveProfile, episode_id |-> e.id,
                      watched_at |-> stampOf[e.tvmaze_id]] :
                        e \in {x \in up.episodes : x.tvmaze_id \in tvWatched}}
    /\ lastCall = NoCall
    /\ serverView = NoView
    /\ clientView = NoView
    /\ showDetail = NoDetail
    /\ categories = <<>>
    /\ requests = <<>>
    /\ clientToday = today
    /\ JobsIdle

NextRoundTrip ==
    \/ Export(ActiveProfile)
    \/ \E ok \in BOOLEAN : ImportExported(FreshProfile, ok)

SpecRoundTrip == InitRoundTrip /\ [][NextRoundTrip]_vars

\* The service with the first show in the catalog store and linked; the
\* refresh job and the add-show route run side by side.
InitSync ==
    /\ tvmaze \in ServiceCatalogs
    /\ today = 2
    /\ clock = 1
    /\ LET up == upsertShowWithEpisodes({}, {}, 10, tvmaze)
       IN /\ shows = up.shows
          /\ episodes = up.episodes
          /\ profile_shows = {[profile_id |-> ActiveProfile,
                               show_id |-> up.showId, status |-> NULL]}
    /\ profile_episodes = {}
    /\ lastCall = NoCall
    /\ serverView = NoView
    /\ clientView = NoView
    /\ showDetail = NoDetail
    /\ categories = <<>>
    /\ requests = <<>>
    /\ clientToday = today
    /\ JobsIdle

NextSync ==
    \/ RunSync
    \/ \E i \in 1..MaxPasses, ok \in BOOLEAN : SyncResume(i, ok)
    \/ \E p \in Profiles, t \in {0} \cup TvShows : AddShowBegin(p, t)
    \/ \E i \in 1..MaxAdds, ok \in BOOLEAN : AddShowResume(i, ok)

SpecSync == InitSync /\ [][NextSync]_vars

\* One linked show seen by the server and by a browser at the same instant,
\* each machine in its own time zone, just after midnight, at noon or just
\* before midnight UTC.
Instants == {d * HoursPerDay + h : d \in Dates, h \in {0, 12, HoursPerDay - 1}}

InitDates ==
    /\ tvmaze \in ServiceCatalogs
    /\ \E instant \in Instants :
          /\ \E zone \in ZoneOffsets : today = serverGetTodayDate(instant, zone)
          /\ \E zone \in ZoneOffsets : clientToday = getTodayDate(instant, zone)
    /\ clock = 1
    /\ LET up == upsertShowWithEpisodes({}, {}, 10, tvmaze)
       IN /\ shows = up.shows
          /\ episodes = up.episodes
          /\ \E st \in {NULL, "stopped"} :
                profile_shows = {[profile_id |-> 1, show_id |-> up.showId,
                                  status |-> st]}
          /\ \E watchedIds \in SUBSET {e.id : e \in up.episodes} :
                profile_episodes =
                    {[profile_id |-> 1, episode_id |-> id, watched_at |-> 1] :
                        id \in watchedIds}
    /\ lastCall = NoCall
    /\ serverView = NoView
    /\ clientView = NoView
    /\ showDetail = NoDetail
    /\ categories = <<>>
    /\ requests = <<>>
    /\ JobsIdle

NextDates ==
    \/ \E p \in Profiles : GetShows(p)
    \/ \E p \in Profiles, sh \in ShowRowIds : ClientDerive(p, sh)

SpecDates == InitDates /\ [][NextDates]_vars

\* isReleased as a function of the airdate and the local time: airdates and
\* times around two days, in a one-digit and a two-digit month, in two years,
\* at the first and the last hour of the day; the airdate may be missing.
ProbeYears == {2023, 2024}
ProbeMonths == {4, 10}
ProbeDays == {9, 10, 11}
ProbeHours == {0, HoursPerDay - 1}

InitReleased ==
    /\ tvmaze \in ServiceCatalogs
    /\ today = 2
    /\ clock = 1
    /\ shows = {}
    /\ episodes = {}
    /\ profile_shows = {}
    /\ profile_episodes = {}
    /\ lastCall = NoCall
    /\ serverView = NoView
    /\ clientView = NoView
    /\ showDetail = NoDetail
    /\ categories = <<>>
    /\ requests = <<>>
    /\ clientToday = today
    /\ exported = NoExport
    /\ tvmazeSyncInProgress = FALSE
    /\ syncPasses = <<>>
    /\ addCalls = <<>>
    /\ \E y \in ProbeYears, m \in ProbeMonths, d \in ProbeDays, missing \in BOOLEAN :
       \E ny \in ProbeYears, nm \in ProbeMonths, nd \in ProbeDays, nh \in ProbeHours :
          LET aired == [year |-> y, month |-> m, day |-> d]
          IN released =
                [airdate |-> IF missing THEN <<>> ELSE TvmazeAirdate(aired),
                 aired |-> IF missing THEN NoDay ELSE aired,
                 now |-> [year |-> ny, month |-> nm, day |-> nd, hour |-> nh],
                 client |-> FALSE, server |-> FALSE, evaluated |-> {}]

NextReleased ==
    \/ ClientIsReleased
    \/ ServerIsReleased

SpecReleased == InitReleased /\ [][NextReleased]_vars

\* A show just added, with no watch mark, for every schedule of its three
\* episodes; the user marks and unmarks episodes and loads the listing.
InitQueued ==
    /\ tvmaze \in {c \in AllCatalogs : c.status[10] \in {"Running", "Ended"}}
    /\ today \in Dates
    /\ clock = MaxClock
    /\ LET up == upsertShowWithEpisodes({}, {}, 10, tvmaze)
       IN /\ shows = up.shows
          /\ episodes = up.episodes
          /\ profile_shows = {[profile_id |-> ActiveProfile,
                               show_id |-> up.showId, status |-> NULL]}
    /\ profile_episodes = {}
    /\ lastCall = NoCall
    /\ serverView = NoView
    /\ clientView = NoView
    /\ showDetail = NoDetail
    /\ categories = <<>>
    /\ requests = <<>>
    /\ clientToday = today
    /\ JobsIdle

NextQueued ==
    \/ \E p \in Profiles, e \in RowIds, w \in BOOLEAN : ToggleEpisode(p, e, w)
    \/ \E p \in Profiles : GetShows(p)

SpecQueued == InitQueued /\ [][NextQueued]_vars

\* ------------------------------------------------------------------ claims
\* The quantities of the derivation, stated over the tables.
States == {"queued", "watch-next", "watching", "up-to-date", "completed", "stopped"}

EpisodesOf(showId) == {e \in episodes : e.show_id = showId}
HasMark(profileId, e) ==
    \E pe \in profile_episodes :
        pe.profile_id = profileId /\ pe.episode_id = e.id
Aired(e) == e.airdate \in Dates /\ e.airdate <= today
AiredOf(showId) == {e \in EpisodesOf(showId) : Aired(e)}
AiredUnwatched(profileId, showId) ==
    {e \in AiredOf(showId) : ~HasMark(profileId, e)}
PartiallyWatched(profileId, showId) ==
    \E n \in {e.season : e \in EpisodesOf(showId)} :
        LET aired == {e \in AiredOf(showId) : e.season = n}
            seen == {e \in aired : HasMark(profileId, e)}
        IN aired # {} /\ seen # {} /\ seen # aired
Started(profileId, showId) ==
    \E e \in EpisodesOf(showId) : HasMark(profileId, e)
Ended(showId) ==
    \E sh \in shows : sh.id = showId /\ sh.status \in {"ended", "Ended", "ENDED"}
EveryEpisodeWatched(profileId, showId) ==
    /\ EpisodesOf(showId) # {}
    /\ \A e \in EpisodesOf(showId) : HasMark(profileId, e)
Override(profileId, showId) ==
    (CHOOSE ps \in profile_shows :
        ps.profile_id = profileId /\ ps.show_id = showId).status

\* The ordered rule list: conditions and results
RuleHolds(profileId, showId) ==
    <<Override(profileId, showId) = "stopped",
      PartiallyWatched(profileId, showId),
      Started(profileId, showId) /\ AiredUnwatched(profileId, showId) # {},
      ~Started(profileId, showId) /\ AiredOf(showId) # {},
      /\ Started(profileId, showId)
      /\ AiredOf(showId) # {} /\ AiredUnwatched(profileId, showId) = {}
      /\ ~Ended(showId),
      Ended(showId) /\ EveryEpisodeWatched(profileId, showId),
      AiredOf(showId) = {},
      TRUE>>
RuleResult ==
    <<"stopped", "watching", "watch-next", "queued", "up-to-date",
      "completed", "queued", "up-to-date">>
FirstRule(profileId, showId) ==
    Min({i \in 1..8 : RuleHolds(profileId, showId)[i]})

\* C1: for the same show, episodes, watch marks, override and date, the
\* client's computeShowStats gives the state and the counters (total,
\* watched, released, released-unwatched, has-future) that the server's
\* listShowsForProfile gives.
C1_ClientMatchesServer ==
    (serverView.valid /\ clientView.valid /\ serverView.show = clientView.show)
        => /\ clientView.state = serverView.state
           /\ clientView.stats = serverView.stats
C1_Witness ==
    /\ serverView.valid /\ clientView.valid
    /\ serverView.show = clientView.show
    /\ clientView.state = "watching"
    /\ clientView.stats.releasedUnwatched > 0
    /\ clientView.stats.hasFuture

C5_CompletedIffEndedAndAllWatched ==
    (serverView.valid /\ Override(1, serverView.show) # "stopped")
        => (serverView.state = "completed"
              <=> (Ended(serverView.show)
                   /\ EveryEpisodeWatched(1, serverView.show)))
C5_Witness ==
    /\ serverView.valid
    /\ Override(1, serverView.show) # "stopped"
    /\ \E sh \in shows : sh.id = serverView.show /\ sh.status = "Ended"
    /\ AiredOf(serverView.show) # {}
    /\ AiredUnwatched(1, serverView.show) = {}
    /\ \E e \in EpisodesOf(serverView.show) : e.airdate = NoDate /\ ~HasMark(1, e)
    /\ serverView.state = "up-to-date"

\* C7: nextEpisode is the released unwatched episode with the earliest
\* airdate; without one, the unwatched episode with the earliest future
\* airdate; without one, absent.
EarliestOf(eps) == {e.id : e \in {x \in eps : \A y \in eps : x.airdate <= y.airdate}}
FutureUnwatched(profileId, showId) ==
    {e \in EpisodesOf(showId) :
        e.airdate \in Dates /\ e.airdate > today /\ ~HasMark(profileId, e)}
NextEpisodeClaimed(profileId, showId, next) ==
    IF AiredUnwatched(profileId, showId) # {}
    THEN next \in EarliestOf(AiredUnwatched(profileId, showId))
    ELSE IF FutureUnwatched(profileId, showId) # {}
    THEN next \in EarliestOf(FutureUnwatched(profileId, showId))
    ELSE next = 0
C7_NextEpisodeIsUnwatched ==
    /\ serverView.valid =>
          NextEpisodeClaimed(1, serverView.show, serverView.nextEpisode)
    /\ clientView.valid =>
          NextEpisodeClaimed(1, clientView.show, clientView.nextEpisode)

\* The entries GET /api/shows can return for a linked show, over every order
\* in which the episodes query can return the rows of that show
EntriesOf(profileId, showId) ==
    {ListEntry(CHOOSE sh \in ProfileShowRows(profileId) : sh.id = showId,
               order, today) :
        order \in QueryOrders({e \in ProfileEpisodeRows(profileId) :
                                 e.show_id = showId})}
LinkedShows(profileId) ==
    {ps.show_id : ps \in {x \in profile_shows : x.profile_id = profileId}}

\* C4: a show that is not stopped and has exactly two released episodes, only
\* the earlier of them watched, is in state watch-next, is listed in the
\* watch-next bucket, is reported as watch-next by the calendar, and has the
\* later episode as nextEpisode.
C4_EarlierWatchedIsWatchNext ==
    \A p \in Profiles : \A showId \in LinkedShows(p) :
        \A e1 \in AiredOf(showId) : \A e2 \in AiredOf(showId) :
            (/\ Override(p, showId) # "stopped"
             /\ AiredOf(showId) = {e1, e2}
             /\ e1.airdate < e2.airdate
             /\ \A e \in EpisodesOf(showId) : HasMark(p, e) <=> e = e1)
            => /\ \A entry \in EntriesOf(p, showId) :
                     /\ entry.state = "watch-next"
                     /\ BucketOf(entry) = "watch-next"
                     /\ entry.nextEpisode = e2.id
               /\ \A c \in CalendarEpisodes(p) :
                     c.showId = showId => c.showState = "watch-next"

\* C6: while the link carries the stopped override, the state is stopped
\* whatever the episodes and marks are; when the override is cleared, the
\* state is the one the rule list gives for the episodes and marks as they
\* are then.
C6_StoppedForces ==
    \A p \in Profiles : \A showId \in LinkedShows(p) :
        Override(p, showId) = "stopped" =>
            \A entry \in EntriesOf(p, showId) : entry.state = "stopped"
C6_Recomputed ==
    \A p \in Profiles : \A showId \in LinkedShows(p) :
        Override(p, showId) = NULL =>
            \A entry \in EntriesOf(p, showId) :
                /\ entry.state = RuleResult[FirstRule(p, showId)]
                /\ entry.state # "stopped"
C6_StoppedThenRecomputed == C6_StoppedForces /\ C6_Recomputed
C6_Witness ==
    /\ lastCall.op = "setStatus" /\ lastCall.status = 200
    /\ \E showId \in LinkedShows(1) :
          /\ Override(1, showId) = NULL
          /\ PartiallyWatched(1, showId)
          /\ \A entry \in EntriesOf(1, showId) : entry.state = "watching"

\* C8: every watch mark is for an episode whose show is linked to the mark's
\* profile.
C8_MarksOnlyForLinkedShows ==
    \A pe \in profile_episodes :
        \E e \in episodes :
            e.id = pe.episode_id /\ IsLinked(pe.profile_id, e.show_id)

\* C9: a season toggle either brings every episode of the season to the
\* target state or, when a step fails, changes no watch mark of the season.
SeasonIds(showId, season) ==
    {e.id : e \in {x \in episodes : x.show_id = showId /\ x.season = season}}
SeasonMarks(profileId, showId, season) ==
    {pe \in profile_episodes :
        pe.profile_id = profileId /\ pe.episode_id \in SeasonIds(showId, season)}
SeasonInTarget(profileId, showId, season, watched) ==
    \A id \in SeasonIds(showId, season) :
        (\E pe \in profile_episodes :
            pe.profile_id = profileId /\ pe.episode_id = id) <=> watched
C9_SeasonToggleAllOrNothing ==
    [][\A p \in Profiles : \A showId \in ShowRowIds : \A n \in Seasons :
       \A w \in BOOLEAN :
          ToggleSeason(p, showId, n, w) =>
             /\ lastCall'.status = 200 => SeasonInTarget(p, showId, n, w)'
             /\ lastCall'.status # 200 =>
                   SeasonMarks(p, showId, n)' = SeasonMarks(p, showId, n)
             /\ SeasonInTarget(p, showId, n, w)'
                \/ SeasonMarks(p, showId, n)' = SeasonMarks(p, showId, n)]_vars
C9_Witness ==
    /\ lastCall.op = "toggleSeason"
    /\ lastCall.status = 500
    /\ lastCall.applied = 1

\* C10: the episodes marked watched by one season toggle all carry the same
\* watched-at timestamp.
C10_SeasonToggleOneTimestamp ==
    [][\A p \in Profiles : \A showId \in ShowRowIds : \A n \in Seasons :
          (ToggleSeason(p, showId, n, TRUE) /\ lastCall'.status = 200) =>
             \A a \in SeasonMarks(p, showId, n)' :
             \A b \in SeasonMarks(p, showId, n)' : a.watched_at = b.watched_at]_vars

\* C11: marking an episode watched leaves exactly one watch mark for the
\* (profile, episode) pair and changes no other mark; when the pair already
\* had a mark (the call is a repetition) the set of row keys is the same as
\* before and only the timestamp may differ; unmarking an episode that has no
\* mark changes nothing.
MarksFor(profileId, episodeId) ==
    {pe \in profile_episodes :
        pe.profile_id = profileId /\ pe.episode_id = episodeId}
MarksNotFor(profileId, episodeId) ==
    {pe \in profile_episodes :
        ~(pe.profile_id = profileId /\ pe.episode_id = episodeId)}
MarkKeys == {<<pe.profile_id, pe.episode_id>> : pe \in profile_episodes}
C11_ToggleEpisodeIdempotent ==
    [][\A p \in Profiles : \A e \in RowIds :
          /\ (ToggleEpisode(p, e, TRUE) /\ lastCall'.status = 200) =>
                /\ Cardinality(MarksFor(p, e)') = 1
                /\ MarksNotFor(p, e)' = MarksNotFor(p, e)
                /\ MarksFor(p, e) # {} =>
                      /\ MarkKeys' = MarkKeys
                      /\ Cardinality(profile_episodes') =
                            Cardinality(profile_episodes)
          /\ (ToggleEpisode(p, e, FALSE) /\ MarksFor(p, e) = {}) =>
                profile_episodes' = profile_episodes]_vars
C11_Witness ==
    /\ lastCall.op = "toggleEpisode" /\ lastCall.status = 200
    /\ clock > 1
    /\ \E pe \in profile_episodes : pe.watched_at = clock
    /\ \E pe \in profile_episodes : pe.watched_at < clock

\* C16: the listing of a profile is the six buckets watch-next, watching,
\* queued, up-to-date, completed, stopped in this order, empty ones included,
\* and every linked show is at exactly one position of the listing, in the
\* bucket whose id is the show's derived state.
ListingPositions(cats, showId) ==
    {<<i, j>> \in (1..Len(cats)) \X (1..Cardinality(TvShows)) :
        j <= Len(cats[i].shows) /\ cats[i].shows[j].id = showId}
C16_SixBucketsOneEach ==
    \A p \in Profiles : \A order \in ListingOrders(p) :
        LET cats == Categories(p, order)
        IN /\ [i \in 1..Len(cats) |-> cats[i].id] =
                 <<"watch-next", "watching", "queued", "up-to-date",
                   "completed", "stopped">>
           /\ \A showId \in LinkedShows(p) :
                 /\ Cardinality(ListingPositions(cats, showId)) = 1
                 /\ \A pos \in ListingPositions(cats, showId) :
                       /\ cats[pos[1]].shows[pos[2]].state = cats[pos[1]].id
                       /\ cats[pos[1]].shows[pos[2]] \in EntriesOf(p, showId)
           /\ \A i \in 1..Len(cats) : \A j \in 1..Len(cats[i].shows) :
                 cats[i].shows[j].id \in LinkedShows(p)
C16_Witness ==
    /\ Cardinality(LinkedShows(1)) = 2
    /\ \E order \in ListingOrders(1) :
          LET cats == Categories(1, order)
          IN /\ Len(cats[2].shows) = 1
             /\ Len(cats[6].shows) = 1
             /\ cats[1].shows = <<>>

\* C17: a removal either deletes the link and every watch mark of the
\* profile for the show's episodes, or, when it fails, leaves the link and
\* those marks as they were; no step deletes one without the other.
LinksOf(profileId, showId) ==
    {ps \in profile_shows : ps.profile_id = profileId /\ ps.show_id = showId}
MarksOfShow(profileId, showId) ==
    {pe \in profile_episodes :
        /\ pe.profile_id = profileId
        /\ \E e \in episodes : e.id = pe.episode_id /\ e.show_id = showId}
C17_RemoveShowAtomic ==
    [][\A p \in Profiles : \A showId \in ShowRowIds : \A threw \in BOOLEAN :
          (RemoveShow(p, showId, threw) /\ LinksOf(p, showId) # {}) =>
             \/ /\ lastCall'.status = 200
                /\ LinksOf(p, showId)' = {}
                /\ MarksOfShow(p, showId)' = {}
             \/ /\ lastCall'.status # 200
                /\ LinksOf(p, showId)' = LinksOf(p, showId)
                /\ MarksOfShow(p, showId)' = MarksOfShow(p, showId)]_vars
C17_Witness ==
    /\ lastCall.op = "removeShow" /\ lastCall.status = 200
    /\ LinkedShows(1) = {}
    /\ profile_episodes = {}
    /\ episodes # {}

\* C19: a status call changes no table but profile_shows, creates and
\* deletes no link, changes no link but the addressed one, sets the override
\* of the addressed link to the given value only when that is null or
\* stopped, and answers 400 with every override unchanged for another value.
LinkKeys == {<<ps.profile_id, ps.show_id>> : ps \in profile_shows}
C19_StatusOverrideFrame ==
    [][\A p \in Profiles : \A showId \in ShowRowIds :
       \A st \in {NULL, "stopped", "paused"} :
          SetShowStatusOverride(p, showId, st) =>
             /\ profile_episodes' = profile_episodes
             /\ shows' = shows
             /\ episodes' = episodes
             /\ LinkKeys' = LinkKeys
             /\ profile_shows' \ LinksOf(p, showId)' =
                   profile_shows \ LinksOf(p, showId)
             /\ \A ps \in LinksOf(p, showId)' :
                   \/ ps \in LinksOf(p, showId)
                   \/ ps.status = st /\ st \in {NULL, "stopped"}
             /\ st \notin {NULL, "stopped"} =>
                   lastCall'.status = 400 /\ profile_shows' = profile_shows
             /\ lastCall'.status = 200 =>
                   \A ps \in LinksOf(p, showId)' : ps.status = st]_vars
C19_Witness ==
    /\ lastCall.op = "setStatus" /\ lastCall.status = 400
    /\ \E ps \in profile_shows : ps.status = "stopped"
    /\ profile_episodes # {}

\* C20: a toggle of an episode whose show is not linked to the profile, and
\* a season toggle of a show that is not linked to it, answer 404 and leave
\* the watch marks as they were.
C20_UnlinkedToggleNotFound ==
    [][/\ \A p \in Profiles : \A e \in RowIds : \A w \in BOOLEAN :
             (/\ ToggleEpisode(p, e, w)
              /\ \A ep \in episodes :
                    ep.id = e => ep.show_id \notin LinkedShows(p)) =>
                /\ lastCall'.status = 404
                /\ profile_episodes' = profile_episodes
       /\ \A p \in Profiles : \A showId \in ShowRowIds : \A n \in Seasons :
          \A w \in BOOLEAN :
             (ToggleSeason(p, showId, n, w) /\ showId \notin LinkedShows(p)) =>
                /\ lastCall'.status = 404
                /\ profile_episodes' = profile_episodes]_vars
C20_Witness ==
    /\ lastCall.op \in {"toggleEpisode", "toggleSeason"}
    /\ lastCall.status = 404
    /\ \E e \in episodes : e.show_id \notin LinkedShows(1)
    /\ LinkedShows(1) # {}

\* The optimistic change of a handler as the detail snapshot shows it.
InFlight(r) == r.phase \notin {"done", "failed"}
Targets(detail, r) ==
    {ep.id : ep \in {x \in Range(flattenEpisodes(detail.seasons)) :
                       \/ r.kind = "toggleEpisode" /\ x.id = r.target
                       \/ r.kind = "toggleSeason" /\ x.season = r.target}}
Reflects(detail, r) ==
    /\ detail.show.id = r.showId
    /\ Targets(detail, r) # {}
    /\ \A ep \in Range(flattenEpisodes(detail.seasons)) :
          ep.id \in Targets(detail, r) => ep.watched = r.watched
\* the listing entry of the open show is the one derived from the snapshot
ListingAgrees(cats, detail) ==
    LET computed == buildOptimisticShowDetail(detail, clientToday)
        found == SelectSeq(flattenShows(cats), LAMBDA sh : sh.id = detail.show.id)
    IN /\ Len(found) = 1
       /\ found[1].state = computed.state
       /\ found[1].stats = computed.stats
       /\ \E i \in 1..Len(cats) :
             /\ cats[i].id = getCategoryId(computed.state)
             /\ found[1] \in Range(cats[i].shows)

\* C12: when a toggle fails and is rolled back, the optimistic change of
\* another toggle that was started after it, on other episodes, and that the
\* snapshot showed before the rollback, is still shown by the detail snapshot
\* after it, and the bucket listing still is the one derived from that
\* snapshot.
C12_RollbackKeepsOtherUpdate ==
    [][\A i \in DOMAIN requests : \A j \in DOMAIN requests :
          (/\ i < j
           /\ requests[i].kind \in Toggles /\ requests[j].kind \in Toggles
           /\ InFlight(requests[i])
           /\ requests[j].phase # "failed"
           /\ requests'[i].phase = "failed"
           /\ Targets(showDetail, requests[i]) \cap Targets(showDetail, requests[j]) = {}
           /\ Reflects(showDetail, requests[j])
           /\ ListingAgrees(categories, showDetail))
          => /\ Reflects(showDetail', requests[j])
             /\ ListingAgrees(categories', showDetail')]_vars

\* C13: when the refetched detail or listing of a handler arrives while a
\* toggle started after it is still in flight, the detail snapshot goes on
\* showing the later toggle's change and the listing goes on being the one
\* derived from that snapshot.
C13_StaleRefetchKeepsNewer ==
    [][\A i \in DOMAIN requests : \A j \in DOMAIN requests :
          (/\ i < j
           /\ requests[j].kind \in Toggles
           /\ InFlight(requests[j])
           /\ requests[i].ok
           /\ \/ requests[i].phase = "detailDone" /\ requests'[i].phase = "shows"
              \/ requests[i].phase = "showsDone" /\ requests'[i].phase = "done"
           /\ Reflects(showDetail, requests[j])
           /\ ListingAgrees(categories, showDetail))
          => /\ Reflects(showDetail', requests[j])
             /\ ListingAgrees(categories', showDetail')]_vars

\* C14: a toggle changes, in the latest detail snapshot, the watched flag of
\* its own episodes and of no other episode, so the change of an earlier
\* toggle whose response has not returned stays in the snapshot, and the
\* listing it leaves is the one derived from the new snapshot.
EpisodesAfterToggle(ids, watched) ==
    [k \in 1..Len(flattenEpisodes(showDetail.seasons)) |->
        IF flattenEpisodes(showDetail.seasons)[k].id \in ids
        THEN [flattenEpisodes(showDetail.seasons)[k] EXCEPT !.watched = watched]
        ELSE flattenEpisodes(showDetail.seasons)[k]]
KeepsEarlierToggles ==
    \A i \in DOMAIN requests :
        (/\ requests[i].kind \in Toggles
         /\ requests[i].phase \in {"post", "postDone"}
         /\ Reflects(showDetail, requests[i])
         /\ Targets(showDetail, requests[i])
               \cap Targets(showDetail, requests'[Len(requests')]) = {})
        => Reflects(showDetail', requests[i])
C14_SecondToggleOnLatestSnapshot ==
    [][/\ \A e \in RowIds : \A w \in BOOLEAN :
             ClientToggleEpisode(e, w) =>
                /\ flattenEpisodes(showDetail'.seasons) = EpisodesAfterToggle({e}, w)
                /\ KeepsEarlierToggles
                /\ ListingAgrees(categories', showDetail')
       /\ \A n \in Seasons : \A w \in BOOLEAN :
             ClientToggleSeason(n, w) =>
                /\ flattenEpisodes(showDetail'.seasons) =
                      EpisodesAfterToggle(
                          {ep.id : ep \in {x \in Range(flattenEpisodes(showDetail.seasons)) :
                                             x.season = n}}, w)
                /\ KeepsEarlierToggles
                /\ ListingAgrees(categories', showDetail')]_vars
C14_Witness ==
    /\ Len(requests) = 2
    /\ requests[1].kind = "toggleEpisode" /\ requests[2].kind = "toggleEpisode"
    /\ requests[1].target # requests[2].target
    /\ requests[1].phase = "post" /\ requests[2].phase = "post"
    /\ Reflects(showDetail, requests[1])
    /\ Reflects(showDetail, requests[2])
    /\ ~Reflects(requests[2].previousDetail, requests[2])
    /\ ~Reflects(requests[1].previousDetail, requests[1])

\* C15: a toggle that fails, at its mutation request or at either refetch,
\* sets the detail snapshot and the bucket listing to the values they had in
\* the state in which the toggle was started, before its optimistic update.
C15_FailureRestoresSnapshot ==
    [][/\ \A i \in DOMAIN requests :
             (/\ requests[i].kind \in Toggles
              /\ InFlight(requests[i])
              /\ requests'[i].phase = "failed")
             => /\ showDetail' = requests[i].previousDetail
                /\ categories' = requests[i].previousCategories
       /\ \A i \in DOMAIN requests :
             InFlight(requests'[i]) =>
                /\ requests'[i].previousDetail = requests[i].previousDetail
                /\ requests'[i].previousCategories = requests[i].previousCategories
       /\ (/\ Len(requests') = Len(requests) + 1
           /\ requests'[Len(requests')].kind \in Toggles)
          => /\ requests'[Len(requests')].previousDetail = showDetail
             /\ requests'[Len(requests')].previousCategories = categories]_vars
C15_Witness ==
    \E i \in DOMAIN requests :
        /\ requests[i].kind \in Toggles
        /\ requests[i].phase = "failed"
        /\ lastCall.status = 200
        /\ ~Reflects(showDetail, requests[i])

\* C18: a link that a step removes carried the stopped override in the state
\* in which it was removed.
C18_RemovedOnlyWhenStopped ==
    [][\A ps \in profile_shows :
          <<ps.profile_id, ps.show_id>> \notin LinkKeys' =>
              ps.status = "stopped"]_vars

\* C21: once the document exported from a profile has been imported into a
\* new profile, the new profile has the (catalog episode id, watchedAt) pairs
\* of every watch mark of the source profile, and no others.
MarkPairs(profileId) ==
    {<<row.tvmaze_id, row.watched_at>> : row \in ExportMarkRows(profileId)}
C21_RoundTripKeepsMarks ==
    exported.phase = "imported" =>
        MarkPairs(FreshProfile) = MarkPairs(ActiveProfile)

\* C22: however a refresh pass and add-show calls for the same TVmaze id
\* interleave at their awaits on the catalog service, the store holds at most
\* one show row per TVmaze show id, every show a profile is linked to has
\* exactly one row, and every episode of a stored show has exactly one row.
ShowRowsOf(tvmazeId) == {sh \in shows : sh.tvmaze_id = tvmazeId}
EpisodeRowsOf(tvEp) == {e \in episodes : e.tvmaze_id = tvEp}
C22_UpsertRaceOneRow ==
    /\ \A t \in TvShows : Cardinality(ShowRowsOf(t)) <= 1
    /\ \A ps \in profile_shows :
          Cardinality({sh \in shows : sh.id = ps.show_id}) = 1
    /\ \A sh \in shows :
          \A k \in 1..Len(TvEpisodes(sh.tvmaze_id)) :
              Cardinality(EpisodeRowsOf(TvEpisodes(sh.tvmaze_id)[k])) = 1
    /\ \A tvEp \in TvEpisodeIds : Cardinality(EpisodeRowsOf(tvEp)) <= 1
C22_Witness ==
    /\ lastCall = Call("syncShow", 200)
    /\ \E i \in DOMAIN syncPasses : \E j \in DOMAIN addCalls :
          /\ syncPasses[i].phase = "sleep"
          /\ Head(syncPasses[i].rows) = 20
          /\ addCalls[j].tvmazeId = 20
          /\ addCalls[j].phase = "fetchEpisodes"
    /\ Cardinality(ShowRowsOf(20)) = 1

\* C23: at most one refresh pass is running, the flag is set exactly while
\* one is; a call of runSync made while the flag is set returns without a
\* pass, an error or any other effect, and a pass only ever starts in a call
\* of runSync made while the flag is clear.
C23_SingleFlight ==
    [][/\ Len(syncPasses') <= 1
       /\ tvmazeSyncInProgress' = (Len(syncPasses') = 1)
       /\ (tvmazeSyncInProgress /\ lastCall' # lastCall
                                /\ lastCall' = Call("runSync", 0)) =>
              UNCHANGED <<syncPasses, tvmazeSyncInProgress, shows, episodes,
                          profile_shows, profile_episodes, addCalls>>
       /\ Len(syncPasses') > Len(syncPasses) =>
              (~tvmazeSyncInProgress /\ lastCall' = Call("runSync", 0))]_vars
C23_Witness ==
    /\ lastCall = Call("runSync", 0)
    /\ tvmazeSyncInProgress
    /\ \E i \in DOMAIN syncPasses :
          Len(syncPasses[i].rows) < Cardinality(SyncRows)

\* C24: the browser and the server use the same as-of date at every instant,
\* so the state the client predicts for a show equals the state the server
\* reports for the same rows.
C24_SameAsOfDate ==
    (serverView.valid /\ clientView.valid /\ serverView.show = clientView.show)
        => (clientToday = today /\ clientView.state = serverView.state)

\* C25: isReleased is true exactly when the airdate is present and its
\* calendar date is on or before the calendar date of the local time, whatever
\* the hour: released on the day it airs, not the day before, never when the
\* airdate is missing.
DateLeq(a, b) ==
    \/ a.year < b.year
    \/ a.year = b.year /\ a.month < b.month
    \/ a.year = b.year /\ a.month = b.month /\ a.day <= b.day
ReleasedByDate == released.aired # NoDay /\ DateLeq(released.aired, released.now)
C25_ReleasedIffOnOrBeforeToday ==
    /\ "client" \in released.evaluated => released.client = ReleasedByDate
    /\ "server" \in released.evaluated => released.server = ReleasedByDate
C25_Witness ==
    /\ released.evaluated = {"client", "server"}
    /\ released.client
    /\ released.aired.day = released.now.day
    /\ released.aired.month = released.now.month
    /\ released.aired.year = released.now.year
    /\ released.now.hour = 0

\* C26: when every handler the client has started has returned normally, the
\* detail snapshot is what GET /api/shows/:id answers and the listing is what
\* GET /api/shows answers for the profile, in whatever order the responses of
\* the handlers arrived.
AllReturned ==
    /\ requests # <<>>
    /\ \A i \in DOMAIN requests : requests[i].phase = "done"
C26_QuiescentEqualsServer ==
    AllReturned =>
        /\ showDetail = ShowDetail(ActiveProfile, showDetail.show.id)
        /\ \E order \in ListingOrders(ActiveProfile) :
              categories = Categories(ActiveProfile, order)

\* C27: for every profile and linked show, the state in the entry of
\* GET /api/shows (whatever order its episodes query returns), the state in
\* GET /api/shows/:id and the showState of each of its episodes in
\* GET /api/calendar are the same.
C27_ViewsReportSameState ==
    \A p \in Profiles : \A sid \in LinkedShows(p) :
        \A entry \in EntriesOf(p, sid) :
            /\ entry.state = ShowDetail(p, sid).show.state
            /\ \A c \in CalendarEpisodes(p) :
                  c.showId = sid => c.showState = entry.state
C27_Witness ==
    \E p \in Profiles : \E sid \in LinkedShows(p) :
        /\ \E c \in CalendarEpisodes(p) : c.showId = sid /\ c.showState = "watching"
        /\ ShowDetail(p, sid).show.state = "watching"
        /\ serverView.valid /\ serverView.show = sid
        /\ serverView.state = "watching"

\* C28: a click that starts a toggle leaves every show of the listing in the
\* listing exactly once and adds none, and puts the show of the detail view
\* into the bucket named after the state predicted from the updated snapshot.
ListedIn(cats, showId) == Cardinality(ListingPositions(cats, showId))
C28_OptimisticListingKeepsShows ==
    [][Len(requests') > Len(requests) =>
          /\ \A sid \in ShowRowIds :
                ListedIn(categories', sid) =
                    IF ListedIn(categories, sid) >= 1 THEN 1 ELSE 0
          /\ \A sid \in ShowRowIds :
                Len(SelectSeq(flattenShows(categories'), LAMBDA sh : sh.id = sid))
                    = ListedIn(categories', sid)
          /\ \A pos \in ListingPositions(categories', showDetail.show.id) :
                /\ categories'[pos[1]].id =
                      buildOptimisticShowDetail(showDetail', clientToday).state
                /\ categories'[pos[1]].shows[pos[2]].state = categories'[pos[1]].id]_vars
C28_Witness ==
    /\ Len(requests) = 1
    /\ requests[1].phase = "post"
    /\ \E pos \in ListingPositions(categories, showDetail.show.id) :
          /\ categories[pos[1]].id = "watch-next"
          /\ ListingPositions(requests[1].previousCategories, showDetail.show.id)
                \cap {<<pos[1], j>> : j \in 1..Cardinality(TvShows)} = {}
    /\ ListedIn(categories, 2) = 1

\* C29: a show that GET /api/shows reports as queued (the bucket labelled
\* Not Started) has no watched episode: the entry counts none and the profile
\* has no watch mark on an episode of the show.
C29_QueuedHasNoWatched ==
    (serverView.valid /\ serverView.state = "queued") =>
        /\ serverView.stats.watchedEpisodes = 0
        /\ MarksOfShow(ActiveProfile, serverView.show) = {}

\* C30: for the same rows, the nextEpisode the client derives from the
\* detail view (episodes in season, number order) is the nextEpisode of the
\* show's entry in GET /api/shows (episodes in the order the query without
\* ORDER BY returned them), also when candidates share the earliest airdate.
C30_NextEpisodeAgreesOnTies ==
    (serverView.valid /\ clientView.valid /\ serverView.show = clientView.show)
        => clientView.nextEpisode = serverView.nextEpisode

====
